---- MODULE Spec2Model ----
(***************************************************************************)
(* Model of the Pronto restaurant-deals application: the review parser,    *)
(* the price extractor, the two record normalization paths, the distance   *)
(* from the user, the filter/sort pipelines, the join and the display of   *)
(* the deals, the login with the admin page, the registration of users,    *)
(* the clean-up at startup, the Haversine distance, the coordinates of a   *)
(* maps link, and the download of the sheet with its local CSV fallback.   *)
(*                                                                         *)
(* Python strings are sequences of one-character strings, so that the      *)
(* regular expressions and substring tests of the code are computed        *)
(* character by character.  Floats are exact rationals [n, d] with d > 0.  *)
(***************************************************************************)
EXTENDS Integers, Sequences, FiniteSets, TLC

VARIABLES
    op,           \* the operation that ran last ("init" before any)
    arg,          \* the arguments it was called with
    ret,          \* what it returned (or that it raised)
    restaurants,  \* the loaded restaurant collection held by the page
    session_state, \* st.session_state: the keys of the login and the page
    files,        \* the files of the server's working directory
    store         \* the tables of the Supabase store

vars == <<op, arg, ret, restaurants, session_state, files, store>>

(***************************************************************************)
(* Bounds of the model.                                                    *)
(***************************************************************************)
MaxRestaurants == 2

(***************************************************************************)
(* Characters and strings.                                                 *)
(***************************************************************************)
Digit == {"0","1","2","3","4","5","6","7","8","9"}

Whitespace == {" ", "\n", "\t"}

DigitVal(c) ==
    CASE c = "0" -> 0 [] c = "1" -> 1 [] c = "2" -> 2 [] c = "3" -> 3
      [] c = "4" -> 4 [] c = "5" -> 5 [] c = "6" -> 6 [] c = "7" -> 7
      [] c = "8" -> 8 [] c = "9" -> 9

DigitChar(n) ==
    CASE n = 0 -> "0" [] n = 1 -> "1" [] n = 2 -> "2" [] n = 3 -> "3"
      [] n = 4 -> "4" [] n = 5 -> "5" [] n = 6 -> "6" [] n = 7 -> "7"
      [] n = 8 -> "8" [] n = 9 -> "9"

\* s[i], or the empty string (equal to no character) outside the string
At(s, i) == IF i \in 1..Len(s) THEN s[i] ELSE ""

\* the literal lit occurs in s starting at index i
StartsAt(s, i, lit) == \A k \in 1..Len(lit) : At(s, i + k - 1) = lit[k]

\* Python's `lit in s`
Contains(s, lit) == \E i \in 1..(Len(s) + 1) : StartsAt(s, i, lit)

\* the index just after the longest run of characters of cls starting at i
\* (a greedy `[cls]*` at position i)
RunEnd(s, i, cls) ==
    IF i > Len(s) THEN i
    ELSE CHOOSE j \in i..(Len(s) + 1) :
            /\ \A k \in i..(j - 1) : s[k] \in cls
            /\ At(s, j) \notin cls

\* the smallest element of a set of indices, 0 when there is none
Leftmost(S) == IF S = {} THEN 0 ELSE CHOOSE i \in S : \A j \in S : i <= j

RECURSIVE DigitsToInt(_)
\* int() of a string of decimal digits
DigitsToInt(ds) ==
    IF ds = <<>> THEN 0
    ELSE DigitsToInt(SubSeq(ds, 1, Len(ds) - 1)) * 10 + DigitVal(ds[Len(ds)])

RECURSIVE Pow10(_)
Pow10(k) == IF k = 0 THEN 1 ELSE 10 * Pow10(k - 1)

RECURSIVE RemoveChar(_, _)
\* str.replace(c, '')
RemoveChar(s, c) ==
    IF s = <<>> THEN <<>>
    ELSE IF Head(s) = c THEN RemoveChar(Tail(s), c)
         ELSE <<Head(s)>> \o RemoveChar(Tail(s), c)

(***************************************************************************)
(* Floats as exact rationals.                                              *)
(***************************************************************************)
Rat(n, d) == [n |-> n, d |-> d]

RatLeq(a, b) == a.n * b.d <= b.n * a.d

RatLt(a, b) == a.n * b.d < b.n * a.d

RatEq(a, b) == a.n * b.d = b.n * a.d

\* float() of "<digits>" or "<digits>.<digits>"
DecimalToRat(s) ==
    LET Value(a, frac) ==
            IF a > Len(s) THEN Rat(DigitsToInt(s), 1)
            ELSE Rat(DigitsToInt(SubSeq(s, 1, a - 1) \o frac), Pow10(Len(frac)))
        FromPoint(a) == Value(a, SubSeq(s, a + 1, Len(s)))
    IN  FromPoint(RunEnd(s, 1, Digit))

(***************************************************************************)
(* review_utils.parse_reviews                                              *)
(***************************************************************************)
L_TotalReviews == <<"T","o","t","a","l"," ","R","e","v","i","e","w","s",":">>

L_AverageRating == <<"A","v","e","r","a","g","e"," ","R","a","t","i","n","g",":">>

L_Total == <<"T","o","t","a","l"," ">>

L_eviews == <<"e","v","i","e","w","s">>

L_AverageRatingNoColon == <<"A","v","e","r","a","g","e"," ","R","a","t","i","n","g">>

L_reviewsParen == <<"r","e","v","i","e","w","s",")">>

\* the regex (\d+\.\d+|\d+)\/(\d+) matched with its first character at i
RatingGroupsAt(s, i) ==
    LET Groups(a, slash, e) ==
            [ok    |-> a > i /\ At(s, slash) = "/" /\ e > slash + 1,
             value |-> SubSeq(s, i, slash - 1),
             max   |-> SubSeq(s, slash + 1, e - 1)]
        Max(a, slash) == Groups(a, slash, RunEnd(s, slash + 1, Digit))
        Fraction(a, b) == Max(a, IF At(s, a) = "." /\ b > a + 1 THEN b ELSE a)
        Value(a) == Fraction(a, RunEnd(s, a + 1, Digit))
    IN  Value(RunEnd(s, i, Digit))

\* re.search(r'(\d+\.\d+|\d+)\/(\d+)', s): the leftmost match
LegacyRatingSearch(s) ==
    LET Match(i) == IF i = 0 THEN [ok |-> FALSE] ELSE RatingGroupsAt(s, i)
    IN  Match(Leftmost({k \in 1..Len(s) : RatingGroupsAt(s, k).ok}))

\* where the rating groups start when 'Average Rating:?\s*' matches at i
AfterAverageRating(s, i) ==
    LET Colon(p) == RunEnd(s, IF At(s, p) = ":" THEN p + 1 ELSE p, Whitespace)
    IN  Colon(i + Len(L_AverageRatingNoColon))

\* re.search(r'Average Rating:?\s*(\d+\.\d+|\d+)\/(\d+)', s)
NewRatingSearch(s) ==
    LET Match(i) == IF i = 0 THEN [ok |-> FALSE]
                    ELSE RatingGroupsAt(s, AfterAverageRating(s, i))
    IN  Match(Leftmost({k \in 1..Len(s) :
                 /\ StartsAt(s, k, L_AverageRatingNoColon)
                 /\ RatingGroupsAt(s, AfterAverageRating(s, k)).ok}))

\* the count regex with a group of digits only, ([0-9]+)
NewCountGroupAtDigitsOnly(s, i) ==
    LET Group(g, e) ==
            [ok |-> /\ StartsAt(s, i, L_Total)
                    /\ At(s, i + Len(L_Total)) \in {"R", "r"}
                    /\ StartsAt(s, i + Len(L_Total) + 1, L_eviews)
                    /\ e > g,
             group |-> SubSeq(s, g, e - 1)]
        Count(g) == Group(g, RunEnd(s, g, Digit))
        Colon(p) == Count(RunEnd(s, IF At(s, p) = ":" THEN p + 1 ELSE p, Whitespace))
    IN  Colon(i + Len(L_Total) + 1 + Len(L_eviews))

\* the regex Total [Rr]eviews:?\s*([0-9,]+) matched with its first character at i
NewCountGroupAt(s, i) ==
    LET Group(g, e) ==
            [ok |-> /\ StartsAt(s, i, L_Total)
                    /\ At(s, i + Len(L_Total)) \in {"R", "r"}
                    /\ StartsAt(s, i + Len(L_Total) + 1, L_eviews)
                    /\ e > g,
             group |-> SubSeq(s, g, e - 1)]
        Count(g) == Group(g, RunEnd(s, g, Digit \cup {","}))
        Colon(p) == Count(RunEnd(s, IF At(s, p) = ":" THEN p + 1 ELSE p, Whitespace))
    IN  Colon(i + Len(L_Total) + 1 + Len(L_eviews))

\* re.search(r'Total [Rr]eviews:?\s*([0-9,]+)', s)
NewCountSearch(s) ==
    LET Match(i) == IF i = 0 THEN [ok |-> FALSE] ELSE NewCountGroupAt(s, i)
    IN  Match(Leftmost({k \in 1..Len(s) : NewCountGroupAt(s, k).ok}))

\* the regex \((\d+)\s+reviews\) matched with its first character at i
LegacyCountGroupAt(s, i) ==
    LET Group(e, w) ==
            [ok |-> /\ At(s, i) = "("
                    /\ e > i + 1
                    /\ w > e
                    /\ StartsAt(s, w, L_reviewsParen),
             group |-> SubSeq(s, i + 1, e - 1)]
        Count(e) == Group(e, RunEnd(s, e, Whitespace))
    IN  Count(RunEnd(s, i + 1, Digit))

\* re.search(r'\((\d+)\s+reviews\)', s)
LegacyCountSearch(s) ==
    LET Match(i) == IF i = 0 THEN [ok |-> FALSE] ELSE LegacyCountGroupAt(s, i)
    IN  Match(Leftmost({k \in 1..Len(s) : LegacyCountGroupAt(s, k).ok}))

\* the normalization of value/max to the 5-star scale; dividing by a zero
\* maximum raises ZeroDivisionError
NormalizeRating(m) ==
    LET Scaled(value, max) ==
            IF max # 5
            THEN IF max = 0 THEN [exc |-> "ZeroDivisionError"]
                 ELSE [exc |-> "none", rating |-> Rat(value.n * 5, value.d * max)]
            ELSE [exc |-> "none", rating |-> value]
    IN  Scaled(DecimalToRat(m.value), DigitsToInt(m.max))

\* the body of the try block of parse_reviews: the pair it returns, or the
\* exception it raises
parse_reviews_try(s) ==
    IF s = <<>> THEN [exc |-> "none", rating |-> Rat(0, 1), count |-> 0]
    ELSE IF Contains(s, L_TotalReviews) /\ Contains(s, L_AverageRating)
    THEN LET Pair(cm, count_str, rm, nr) ==
                 IF cm.ok /\ count_str = <<>> THEN [exc |-> "ValueError"]
                 ELSE IF rm.ok /\ nr.exc # "none" THEN [exc |-> nr.exc]
                 ELSE [exc |-> "none",
                       rating |-> IF rm.ok THEN nr.rating ELSE Rat(0, 1),
                       count |-> IF cm.ok THEN DigitsToInt(count_str) ELSE 0]
             Matched(cm, rm) ==
                 Pair(cm, RemoveChar(cm.group, ","), rm, NormalizeRating(rm))
         IN  Matched(NewCountSearch(s), NewRatingSearch(s))
    ELSE LET Pair(rm, nr, cm) ==
                 IF rm.ok /\ nr.exc # "none" THEN [exc |-> nr.exc]
                 ELSE [exc |-> "none",
                       rating |-> IF rm.ok THEN nr.rating ELSE Rat(0, 1),
                       count |-> IF cm.ok THEN DigitsToInt(cm.group) ELSE 0]
             Matched(rm, cm) == Pair(rm, NormalizeRating(rm), cm)
         IN  Matched(LegacyRatingSearch(s), LegacyCountSearch(s))

\* an except clause that names ValueError alone
ExceptValueErrorOnly(exc) == exc = "ValueError"

\* `except Exception` catches every exception the body can raise
ExceptException(exc) == TRUE

\* parse_reviews: (rating, count), and whether an exception reached the caller
parse_reviews(s) ==
    LET Caught(t) ==
            IF t.exc = "none"
            THEN [raised |-> FALSE, rating |-> t.rating, count |-> t.count]
            ELSE IF ExceptException(t.exc)
            THEN [raised |-> FALSE, rating |-> Rat(0, 1), count |-> 0]
            ELSE [raised |-> TRUE, exc |-> t.exc]
    IN  Caught(parse_reviews_try(s))

(***************************************************************************)
(* The review strings the parser is given: a shape of text around a count, *)
(* a rating value and a rating maximum, written out as the sources write   *)
(* them.                                                                   *)
(***************************************************************************)
RECURSIVE NatToDigits(_)
\* str(n) of a natural number
NatToDigits(n) ==
    IF n < 10 THEN <<DigitChar(n)>>
    ELSE NatToDigits(n \div 10) \o <<DigitChar(n % 10)>>

RECURSIVE FormatCount(_)
\* a count written with comma-grouped digits, "2,804"
FormatCount(n) ==
    IF n < 1000 THEN NatToDigits(n)
    ELSE FormatCount(n \div 1000) \o <<",">>
         \o <<DigitChar((n % 1000) \div 100), DigitChar((n % 100) \div 10),
              DigitChar(n % 10)>>

\* a rating value written as "<digits>" or "<digits>.<digit>"
FormatValue(v) ==
    IF v.d = 1 THEN NatToDigits(v.n)
    ELSE NatToDigits(v.n \div 10) \o <<".", DigitChar(v.n % 10)>>

L_TotalReviewsSp == <<"T","o","t","a","l"," ","R","e","v","i","e","w","s",":"," ">>

L_TotalLowerSp == <<"T","o","t","a","l"," ","r","e","v","i","e","w","s",":"," ">>

L_NlAverageRatingSp == <<"\n","A","v","e","r","a","g","e"," ","R","a","t","i","n","g",":"," ">>

L_SpReviewsParen == <<" ","r","e","v","i","e","w","s",")">>

L_na == <<"n","/","a">>

L_NoReviewsYet == <<"N","o"," ","r","e","v","i","e","w","s"," ","y","e","t">>

ReviewShapes ==
    {"new", "new_lower", "legacy", "legacy_nocount", "new_badcount",
     "new_commas", "new_norating", "garbage", "empty"}

ReviewCounts == {0, 7, 120, 2804}

ReviewValues == {Rat(0, 1), Rat(4, 1), Rat(45, 10), Rat(86, 10), Rat(7, 1)}

ReviewMaxes == {0, 5, 10}

RatingText(v, m) == FormatValue(v) \o <<"/">> \o NatToDigits(m)

\* the review string of a given shape
RenderReview(shape, c, v, m) ==
    CASE shape = "new" ->
            L_TotalReviewsSp \o FormatCount(c) \o L_NlAverageRatingSp \o RatingText(v, m)
      [] shape = "new_lower" ->
            L_TotalLowerSp \o FormatCount(c) \o L_NlAverageRatingSp \o RatingText(v, m)
      [] shape = "legacy" ->
            RatingText(v, m) \o <<" ", "(">> \o NatToDigits(c) \o L_SpReviewsParen
      [] shape = "legacy_nocount" -> RatingText(v, m)
      [] shape = "new_badcount" ->
            L_TotalReviewsSp \o L_na \o L_NlAverageRatingSp \o RatingText(v, m)
      [] shape = "new_commas" ->
            L_TotalReviewsSp \o <<",">> \o L_NlAverageRatingSp \o RatingText(v, m)
      [] shape = "new_norating" ->
            L_TotalReviewsSp \o FormatCount(c) \o L_NlAverageRatingSp \o L_na
      [] shape = "garbage" -> L_NoReviewsYet
      [] shape = "empty" -> <<>>

ReviewInputs ==
    [shape : ReviewShapes, count : ReviewCounts, value : ReviewValues,
     max : ReviewMaxes]

ReviewText(in) == RenderReview(in.shape, in.count, in.value, in.max)

(***************************************************************************)
(* filters.extract_all_prices_from_deals / extract_price_from_deals        *)
(***************************************************************************)
L_each == <<"e","a","c","h">>

\* the negative lookahead (?!\s*each) fails at p
EachAhead(s, p) == StartsAt(s, RunEnd(s, p, Whitespace), L_each)

\* the regex \$(\d+(?:\.\d+)?)(?!\s*each) matched with its "$" at i: the
\* engine tries the longest integer part with the longest fraction first and
\* backtracks to shorter fractions, then to no fraction, then to shorter
\* integer parts, taking the first end at which the lookahead passes
PriceMatchAt(s, i) ==
    LET pick(S) == CHOOSE e \in S : \A f \in S : f <= e
        Match(fracOk, intOk) ==
            IF At(s, i) = "$" /\ (fracOk # {} \/ intOk # {})
            THEN [ok |-> TRUE,
                  group |-> SubSeq(s, i + 1,
                                   (IF fracOk # {} THEN pick(fracOk)
                                    ELSE pick(intOk)) - 1)]
            ELSE [ok |-> FALSE]
        Ends(fracEnds, intEnds) ==
            Match({e \in fracEnds : ~EachAhead(s, e)},
                  {e \in intEnds : ~EachAhead(s, e)})
        Fraction(a, b) ==
            Ends(IF At(s, a) = "." /\ b > a + 1 THEN (a + 2)..b ELSE {},
                 (i + 2)..a)
        Integer(a) == Fraction(a, RunEnd(s, a + 1, Digit))
    IN  Integer(RunEnd(s, i + 1, Digit))

RECURSIVE FindAllPrices(_, _)
\* re.findall(price_pattern, s) from index i on, left to right
FindAllPrices(s, i) ==
    IF i > Len(s) THEN <<>>
    ELSE LET Rest(m) ==
                 IF m.ok THEN <<m.group>> \o FindAllPrices(s, i + 1 + Len(m.group))
                 ELSE FindAllPrices(s, i + 1)
         IN  Rest(PriceMatchAt(s, i))

RECURSIVE PricesInRange(_)
\* float(match) for every match, kept when 0.01 <= price <= 100
PricesInRange(ms) ==
    IF ms = <<>> THEN <<>>
    ELSE LET Kept(price) ==
                 IF RatLeq(Rat(1, 100), price) /\ RatLeq(price, Rat(100, 1))
                 THEN <<price>> ELSE <<>>
         IN  Kept(DecimalToRat(Head(ms))) \o PricesInRange(Tail(ms))

deal_fields == <<"summarized_deals", "detailed_deals", "deals">>

\* `field in restaurant and restaurant[field]`
HasText(restaurant, field) ==
    field \in DOMAIN restaurant /\ restaurant[field] # <<>>

FieldPrices(restaurant, field) ==
    IF HasText(restaurant, field)
    THEN PricesInRange(FindAllPrices(restaurant[field], 1))
    ELSE <<>>

extract_all_prices_from_deals(restaurant) ==
    FieldPrices(restaurant, deal_fields[1])
    \o FieldPrices(restaurant, deal_fields[2])
    \o FieldPrices(restaurant, deal_fields[3])

\* +infinity, float('inf')
Inf == [inf |-> TRUE]

IsInf(x) == "inf" \in DOMAIN x

RECURSIVE MinRat(_)
MinRat(ps) ==
    IF Len(ps) = 1 THEN ps[1]
    ELSE LET Smaller(m) == IF RatLeq(ps[1], m) THEN ps[1] ELSE m
         IN  Smaller(MinRat(Tail(ps)))

extract_price_from_deals(restaurant) ==
    LET Lowest(prices) == IF prices # <<>> THEN MinRat(prices) ELSE Inf
    IN  Lowest(extract_all_prices_from_deals(restaurant))

\* the deal texts of the model
D_BuyOne == <<"B","u","y"," ","1"," ","G","e","t"," ","1"," ","$","1","0"," ","o","f","f"," ","-",">"," ","$","0",".","9","5"," ","e","a","c","h"," ","w","i","n","g","s">>

D_TwentyEach == <<"$","2","0"," ","e","a","c","h">>

D_Lunch == <<"$","5",".","9","9"," ","l","u","n","c","h">>

D_FreeFries == <<"F","r","e","e"," ","f","r","i","e","s">>

D_TwoFor == <<"2"," ","f","o","r"," ","$","2","5">>

D_HalfEach == <<"$","0",".","5"," ","e","a","c","h">>

D_Catering == <<"$","1","5","0"," ","c","a","t","e","r","i","n","g">>

D_Wings == <<"W","i","n","g","s"," ","$","1","2"," ","-",">"," ","$","8","e","a","c","h">>

DealTexts ==
    {<<>>, D_BuyOne, D_TwentyEach, D_Lunch, D_FreeFries, D_TwoFor,
     D_HalfEach, D_Catering, D_Wings}

\* the marker of a field a record does not have
Absent == <<"absent">>

\* a record with the given deal texts; Absent leaves the field out
DealRecord(sd, dd, d) ==
    [f \in {x \in {"summarized_deals"} : sd # Absent}
            \cup {x \in {"detailed_deals"} : dd # Absent}
            \cup {x \in {"deals"} : d # Absent}
       |-> CASE f = "summarized_deals" -> sd
             [] f = "detailed_deals" -> dd
             [] f = "deals" -> d]

(***************************************************************************)
(* The parsers called on their own: the initial state holds the argument,  *)
(* the action applies the function to it.                                  *)
(***************************************************************************)
Idle == [none |-> TRUE]

ParserCalls ==
    {[fn |-> "parse_reviews", in |-> in, review_str |-> ReviewText(in)] :
        in \in ReviewInputs}
    \cup
    {[fn |-> "extract_all_prices_from_deals", restaurant |-> DealRecord(sd, dd, d)] :
        sd \in DealTexts \cup {Absent},
        dd \in {<<>>, D_Lunch, D_TwentyEach, Absent},
        d \in {D_TwoFor, D_HalfEach, Absent}}

InitParsers ==
    /\ op = "init"
    /\ session_state = <<>>
    /\ files = <<>>
    /\ store = <<>>
    /\ arg \in ParserCalls
    /\ ret = Idle
    /\ restaurants = <<>>

ParseReviews ==
    /\ op = "init"
    /\ arg.fn = "parse_reviews"
    /\ op' = "parse_reviews"
    /\ ret' = parse_reviews(arg.review_str)
    /\ UNCHANGED <<arg, restaurants, session_state, files, store>>

ExtractAllPrices ==
    /\ op = "init"
    /\ arg.fn = "extract_all_prices_from_deals"
    /\ op' = "extract_all_prices_from_deals"
    /\ ret' = [prices |-> extract_all_prices_from_deals(arg.restaurant),
               min_price |-> extract_price_from_deals(arg.restaurant)]
    /\ UNCHANGED <<arg, restaurants, session_state, files, store>>

NextParsers == ParseReviews \/ ExtractAllPrices

SpecParsers == InitParsers /\ [][NextParsers]_vars

(***************************************************************************)
(* Properties of the parsers.                                              *)
(***************************************************************************)
\* the rating the text "<value>/<max>" stands for on the 5-star scale
ExpectedRating(in) ==
    IF in.max = 5 THEN in.value ELSE Rat(in.value.n * 5, in.value.d * in.max)

\* the "$<number>" token starting at i, taken whole: the longest number
NumberTokenAt(s, i) ==
    LET a == RunEnd(s, i + 1, Digit)
        b == RunEnd(s, a + 1, Digit)
        end == IF At(s, a) = "." /\ b > a + 1 THEN b ELSE a
    IN  [ok |-> At(s, i) = "$" /\ a > i + 1,
         end |-> end,
         number |-> SubSeq(s, i + 1, end - 1)]

RECURSIVE TokensNotEach(_, _)
\* the numbers of the "$<number>" tokens of s not followed by "each"
TokensNotEach(s, i) ==
    IF i > Len(s) THEN <<>>
    ELSE LET t == NumberTokenAt(s, i)
         IN  IF t.ok
             THEN (IF EachAhead(s, t.end) THEN <<>> ELSE <<t.number>>)
                  \o TokensNotEach(s, t.end)
             ELSE TokensNotEach(s, i + 1)

StatedFieldPrices(restaurant, field) ==
    IF HasText(restaurant, field)
    THEN PricesInRange(TokensNotEach(restaurant[field], 1))
    ELSE <<>>

StatedPrices(restaurant) ==
    StatedFieldPrices(restaurant, "summarized_deals")
    \o StatedFieldPrices(restaurant, "detailed_deals")
    \o StatedFieldPrices(restaurant, "deals")

\* C2: extract_all_prices_from_deals returns exactly the values of the
\* "$<number>" tokens of summarized_deals, detailed_deals and deals, in that
\* order, whose number is not followed by "each" and lies in [0.01, 100]; a
\* token followed by "each" contributes nothing, not even a prefix of its
\* number.
C2_PricesAreTokensNotEach ==
    op = "extract_all_prices_from_deals"
        => ret.prices = StatedPrices(arg.restaurant)

\* the inputs on which a required marker or number is missing or malformed
ParseFails(in) ==
    \/ in.shape \in {"legacy_nocount", "new_badcount", "new_commas",
                     "new_norating", "garbage"}
    \/ in.shape \in {"new", "legacy"} /\ in.max = 0

\* C3 as stated: parse_reviews never raises to its caller, and on every
\* input on which parsing fails the result is exactly (0.0, 0), never a
\* partially parsed pair.
C3_FailureYieldsZeroPair ==
    op = "parse_reviews"
        => /\ ~ret.raised
           /\ ParseFails(arg.in) => (ret.rating = Rat(0, 1) /\ ret.count = 0)

\* the inputs on which the body of parse_reviews raises: a zero maximum
\* behind a rating that is found, or a count made of commas only
RaisesInside(in) ==
    \/ in.shape = "new_commas"
    \/ in.max = 0 /\ in.shape \in {"new", "new_lower", "legacy",
                                  "legacy_nocount", "new_badcount"}

\* C3 as amended: parse_reviews never raises to its caller; when the parse
\* raises inside (zero maximum, count of commas only) the result is exactly
\* (0.0, 0); when only the count or only the rating is missing, that
\* component alone defaults to 0 and the other is returned as parsed.
C3_RaiseYieldsZeroPairElseComponentDefault ==
    op = "parse_reviews"
        => /\ ~ret.raised
           /\ RaisesInside(arg.in) => (ret.rating = Rat(0, 1) /\ ret.count = 0)
           /\ (~RaisesInside(arg.in) /\ arg.in.shape \in {"legacy_nocount", "new_badcount"})
                => (RatEq(ret.rating, ExpectedRating(arg.in)) /\ ret.count = 0)
           /\ arg.in.shape = "new_norating"
                => (ret.rating = Rat(0, 1) /\ ret.count = arg.in.count)
           /\ arg.in.shape \in {"garbage", "empty"}
                => (ret.rating = Rat(0, 1) /\ ret.count = 0)

\* a zero maximum was parsed and came back as the zero pair, and a missing
\* count came back with the rating kept
C3_Witness ==
    /\ op = "parse_reviews"
    /\ arg.in = [shape |-> "new", count |-> 120, value |-> Rat(45, 10), max |-> 0]
    /\ ret = [raised |-> FALSE, rating |-> Rat(0, 1), count |-> 0]

\* C4: on an input in the new format (count with comma-grouped digits) or
\* in the legacy format, parse_reviews returns rating = value when max = 5
\* and value/max*5 otherwise, and count = the review count.
C4_RecognizedFormatsParsed ==
    (op = "parse_reviews" /\ arg.in.shape \in {"new", "legacy"} /\ arg.in.max # 0)
        => /\ ~ret.raised
           /\ RatEq(ret.rating, ExpectedRating(arg.in))
           /\ ret.count = arg.in.count

\* "Total Reviews: 2,804\nAverage Rating: 8.6/10" came back as (4.3, 2804)
C4_Witness ==
    /\ op = "parse_reviews"
    /\ arg.in = [shape |-> "new", count |-> 2804, value |-> Rat(86, 10), max |-> 10]
    /\ RatEq(ret.rating, Rat(43, 10))
    /\ ret.count = 2804

\* C5: an input spelled "Total reviews: <count>" with "Average Rating:
\* <value>/<max>" is parsed as the new format, to the same (rating, count) as
\* the input spelled "Total Reviews:".
C5_LowerCaseReviewsRecognized ==
    (op = "parse_reviews" /\ arg.in.shape = "new_lower" /\ arg.in.max # 0)
        => /\ ~ret.raised
           /\ RatEq(ret.rating, ExpectedRating(arg.in))
           /\ ret.count = arg.in.count

(***************************************************************************)
(* filters.get_distance_value                                              *)
(***************************************************************************)
\* Python's None where a string is expected
PyNone == <<"None">>

\* the index just after the longest run of characters outside cls from i
RunEndNot(s, i, cls) ==
    IF i > Len(s) THEN i
    ELSE CHOOSE j \in i..(Len(s) + 1) :
            /\ \A k \in i..(j - 1) : s[k] \notin cls
            /\ (j = Len(s) + 1 \/ s[j] \in cls)

\* s.split()[0]: the first whitespace-separated part, if there is one
FirstPart(s) ==
    LET Part(a, b) == [ok |-> a <= Len(s), part |-> SubSeq(s, a, b - 1)]
        From(a) == Part(a, RunEndNot(s, a, Whitespace))
    IN  From(RunEnd(s, 1, Whitespace))

\* float() of a string: an optional sign, digits with at most one point and
\* at least one digit; anything else is a ValueError (the strings of the
\* model hold no exponent, "inf", "nan" or underscore forms)
ParseFloat(s) ==
    LET Float(body, int, frac, end, mag) ==
            [ok |-> end = Len(body) + 1 /\ Len(int) + Len(frac) >= 1,
             value |-> Rat(IF At(s, 1) = "-" THEN 0 - mag ELSE mag,
                           Pow10(Len(frac)))]
        Parts(body, int, frac, end) ==
            Float(body, int, frac, end, DigitsToInt(int \o frac))
        Digits(body, a, b, point) ==
            Parts(body, SubSeq(body, 1, a - 1),
                  IF point THEN SubSeq(body, a + 1, b - 1) ELSE <<>>,
                  IF point THEN b ELSE a)
        Integer(body, a) ==
            Digits(body, a, RunEnd(body, a + 1, Digit), At(body, a) = ".")
        Body(body) == Integer(body, RunEnd(body, 1, Digit))
    IN  Body(IF At(s, 1) \in {"-", "+"} THEN Tail(s) ELSE s)

\* the body of the try block of get_distance_value
get_distance_value_try(restaurant) ==
    IF "distance" \in DOMAIN restaurant
    THEN IF restaurant.distance = PyNone THEN [exc |-> "AttributeError"]
         ELSE LET Number(parts, x) ==
                      IF parts.ok
                      THEN IF x.ok THEN [exc |-> "none", value |-> x.value]
                           ELSE [exc |-> "ValueError"]
                      ELSE [exc |-> "none", value |-> Rat(0, 1)]
                  Split(parts) == Number(parts, ParseFloat(parts.part))
              IN  Split(FirstPart(restaurant.distance))
    ELSE [exc |-> "none", value |-> Rat(0, 1)]

\* except (ValueError, IndexError, TypeError)
DistanceExcept == {"ValueError", "IndexError", "TypeError"}

get_distance_value(restaurant) ==
    LET Caught(t) ==
            IF t.exc = "none" THEN [raised |-> FALSE, value |-> t.value]
            ELSE IF t.exc \in DistanceExcept
            THEN [raised |-> FALSE, value |-> Rat(0, 1)]
            ELSE [raised |-> TRUE, exc |-> t.exc]
    IN  Caught(get_distance_value_try(restaurant))

(***************************************************************************)
(* filters.apply_filters_and_sorting                                       *)
(***************************************************************************)
LowerChar(c) ==
    CASE c = "A" -> "a" [] c = "B" -> "b" [] c = "C" -> "c" [] c = "D" -> "d"
      [] c = "E" -> "e" [] c = "F" -> "f" [] c = "G" -> "g" [] c = "H" -> "h"
      [] c = "I" -> "i" [] c = "J" -> "j" [] c = "K" -> "k" [] c = "L" -> "l"
      [] c = "M" -> "m" [] c = "N" -> "n" [] c = "O" -> "o" [] c = "P" -> "p"
      [] c = "Q" -> "q" [] c = "R" -> "r" [] c = "S" -> "s" [] c = "T" -> "t"
      [] c = "U" -> "u" [] c = "V" -> "v" [] c = "W" -> "w" [] c = "X" -> "x"
      [] c = "Y" -> "y" [] c = "Z" -> "z" [] OTHER -> c

\* str.lower()
Lower(s) == [k \in 1..Len(s) |-> LowerChar(s[k])]

\* r.get('rating', 0)
GetRating(r) == IF "rating" \in DOMAIN r THEN r.rating ELSE Rat(0, 1)

\* int(r.get('review_count', 0))
GetReviewCount(r) == IF "review_count" \in DOMAIN r THEN r.review_count ELSE 0

\* the review filter with the threshold left on the 0-10 scale
PassesReviewsNoHalving(r, min_rating, min_reviews) ==
    /\ RatLeq(min_rating, GetRating(r))
    /\ GetReviewCount(r) >= min_reviews

\* line 201: rating >= min_rating / 2 and review count >= min_reviews
PassesReviews(r, min_rating, min_reviews) ==
    /\ RatLeq(Rat(min_rating.n, min_rating.d * 2), GetRating(r))
    /\ GetReviewCount(r) >= min_reviews

\* line 206
PassesName(r, name_filter) ==
    /\ HasText(r, "name")
    /\ Contains(Lower(r.name), Lower(name_filter))

\* the deal match without the legacy deals field
DealMatchNoLegacy(r, deals_filter) ==
    LET f == Lower(deals_filter)
        m1 == HasText(r, "summarized_deals") /\ Contains(Lower(r.summarized_deals), f)
        m2 == m1 \/ (HasText(r, "detailed_deals") /\ Contains(Lower(r.detailed_deals), f))
    IN  m2

\* lines 215-229: the three deal fields, tried in order
DealMatch(r, deals_filter) ==
    LET f == Lower(deals_filter)
        m1 == HasText(r, "summarized_deals") /\ Contains(Lower(r.summarized_deals), f)
        m2 == m1 \/ (HasText(r, "detailed_deals") /\ Contains(Lower(r.detailed_deals), f))
        m3 == m2 \/ (HasText(r, "deals") /\ Contains(Lower(r.deals), f))
    IN  m3

\* the price test without the pass for records that have no price
PassesPricePricedOnly(r, max_price) ==
    LET Within(min_price) == ~IsInf(min_price) /\ RatLeq(min_price, max_price)
    IN  Within(extract_price_from_deals(r))

\* lines 242-245
PassesPrice(r, max_price) ==
    LET Within(min_price) == IsInf(min_price) \/ RatLeq(min_price, max_price)
    IN  Within(extract_price_from_deals(r))

\* a <= b in the place of a < b
KeyLtOrEqual(a, b) ==
    IF IsInf(b) THEN TRUE ELSE IF IsInf(a) THEN FALSE ELSE RatLeq(a, b)

\* a < b on floats that may be +infinity
KeyLt(a, b) ==
    IF IsInf(a) THEN FALSE ELSE IF IsInf(b) THEN TRUE ELSE RatLt(a, b)

\* the sort key that ignores sort_by and always takes the rating
SortKeyRatingOnly(r, sort_by) == GetRating(r)

\* the unpriced record sorted as if its price were 0
SortKeyUnpricedZero(r, sort_by) ==
    CASE sort_by = "Distance" -> get_distance_value(r).value
      [] sort_by = "Rating" -> GetRating(r)
      [] sort_by = "Review Count" -> Rat(GetReviewCount(r), 1)
      [] sort_by = "Price" ->
            IF IsInf(extract_price_from_deals(r)) THEN Rat(0, 1)
            ELSE extract_price_from_deals(r)

\* the sort key of lines 251-258; sorting by anything else sorts nothing
SortKey(r, sort_by) ==
    CASE sort_by = "Distance" -> get_distance_value(r).value
      [] sort_by = "Rating" -> GetRating(r)
      [] sort_by = "Review Count" -> Rat(GetReviewCount(r), 1)
      [] sort_by = "Price" -> extract_price_from_deals(r)

RECURSIVE InsertByKey(_, _, _)
\* x put behind every element it does not strictly precede
InsertByKey(sorted, x, reverse) ==
    IF sorted = <<>> THEN <<x>>
    ELSE IF (IF reverse THEN KeyLt(Head(sorted).key, x.key)
             ELSE KeyLt(x.key, Head(sorted).key))
         THEN <<x>> \o sorted
         ELSE <<Head(sorted)>> \o InsertByKey(Tail(sorted), x, reverse)

RECURSIVE SortPairs(_, _)
SortPairs(ps, reverse) ==
    IF ps = <<>> THEN <<>>
    ELSE InsertByKey(SortPairs(SubSeq(ps, 1, Len(ps) - 1), reverse),
                     ps[Len(ps)], reverse)

RECURSIVE Reversed(_)
\* list.reverse()
Reversed(xs) == IF xs = <<>> THEN <<>> ELSE Reversed(Tail(xs)) \o <<Head(xs)>>

\* an ascending sort turned around for Descending, which turns the ties too
SortByKeyThenReverse(xs, keys, reverse) ==
    LET Records(ps) == [k \in 1..Len(xs) |-> ps[k].rec]
        Turned(ys) == IF reverse THEN Reversed(ys) ELSE ys
    IN  Turned(Records(SortPairs([k \in 1..Len(xs) |->
                                    [key |-> keys[k], rec |-> xs[k]]], FALSE)))

\* list.sort(key=..., reverse=...) of xs, keys[k] being the key of xs[k]:
\* stable in both directions
SortByKey(xs, keys, reverse) ==
    LET Records(ps) == [k \in 1..Len(xs) |-> ps[k].rec]
    IN  Records(SortPairs([k \in 1..Len(xs) |-> [key |-> keys[k], rec |-> xs[k]]],
                          reverse))

SortKinds == {"Distance", "Rating", "Review Count", "Price"}

\* apply_filters_and_sorting with the list it holds after each step
apply_filters_and_sorting(rs, p) ==
    LET Sorted(after_reviews, after_name, after_deals, after_price) ==
            IF /\ p.sort_by = "Distance"
               /\ \E k \in 1..Len(after_price) :
                        get_distance_value(after_price[k]).raised
            THEN [raised |-> TRUE, exc |-> "AttributeError"]
            ELSE [raised |-> FALSE,
                  after_reviews |-> after_reviews,
                  after_name |-> after_name,
                  after_deals |-> after_deals,
                  after_price |-> after_price,
                  result |-> IF p.sort_by \in SortKinds
                             THEN SortByKey(after_price,
                                            [k \in 1..Len(after_price) |->
                                                SortKey(after_price[k], p.sort_by)],
                                            p.sort_order = "Descending")
                             ELSE after_price]
        ByPrice(after_reviews, after_name, after_deals) ==
            Sorted(after_reviews, after_name, after_deals,
                   IF ~IsInf(p.max_price)
                   THEN SelectSeq(after_deals, LAMBDA r : PassesPrice(r, p.max_price))
                   ELSE after_deals)
        ByDeals(after_reviews, after_name) ==
            ByPrice(after_reviews, after_name,
                    IF p.deals_filter # <<>>
                    THEN SelectSeq(after_name, LAMBDA r : DealMatch(r, p.deals_filter))
                    ELSE after_name)
        ByName(after_reviews) ==
            ByDeals(after_reviews,
                    IF p.name_filter # <<>>
                    THEN SelectSeq(after_reviews,
                                   LAMBDA r : PassesName(r, p.name_filter))
                    ELSE after_reviews)
    IN  IF rs = <<>> THEN [raised |-> FALSE, result |-> <<>>, after_reviews |-> <<>>,
                           after_name |-> <<>>, after_deals |-> <<>>,
                           after_price |-> <<>>]
        ELSE ByName(SelectSeq(rs, LAMBDA r :
                        PassesReviews(r, p.min_rating, p.min_reviews)))

\* the variant of the call that sorts the list it was given when no record
\* is filtered out, as `filtered = restaurants` instead of line 201 would
ArgumentSortedInPlace(rs, p) ==
    LET After(out) ==
            IF ~out.raised /\ Len(out.result) = Len(rs) THEN out.result ELSE rs
    IN  After(apply_filters_and_sorting(rs, p))

\* the list given to the call, after the call: line 201 builds `filtered` as
\* a new list, every later step builds another or sorts `filtered` (lines
\* 207, 234, 248, 251-258), and no step assigns to a field of a record
ArgumentAfter(rs, p) == rs

(***************************************************************************)
(* app.main: the page of app.py, which parses the reviews of the CSV rows  *)
(* itself and filters and sorts them inline.                               *)
(***************************************************************************)
\* app.parse_reviews (lines 43-60): the rating is the value before the
\* slash, not rescaled
app_parse_reviews(review_str) ==
    LET Pair(rm, cm) ==
            [rating |-> IF rm.ok THEN DecimalToRat(rm.value) ELSE Rat(0, 1),
             count |-> IF cm.ok THEN DigitsToInt(cm.group) ELSE 0]
    IN  Pair(LegacyRatingSearch(review_str), LegacyCountSearch(review_str))

\* lines 84-87: rating and review_count stored into the row
WithReviews(row) ==
    [f \in DOMAIN row \cup {"rating", "review_count"} |->
        CASE f = "rating" -> app_parse_reviews(row.reviews).rating
          [] f = "review_count" -> app_parse_reviews(row.reviews).count
          [] OTHER -> row[f]]

\* float(r['distance'].split()[0]) of lines 128, 168 and 175
MainDistance(r) ==
    IF "distance" \notin DOMAIN r THEN [exc |-> "KeyError"]
    ELSE IF r.distance = PyNone THEN [exc |-> "AttributeError"]
    ELSE LET Number(parts, x) ==
                 IF ~parts.ok THEN [exc |-> "IndexError"]
                 ELSE IF ~x.ok THEN [exc |-> "ValueError"]
                 ELSE [exc |-> "none", value |-> x.value]
             Split(parts) == Number(parts, ParseFloat(parts.part))
         IN  Split(FirstPart(r.distance))

\* a distance test that lets every row through
WithinDistanceAlways(r, distance_filter) == TRUE

\* line 168: the distance cap
WithinDistance(r, distance_filter) == RatLeq(MainDistance(r).value, distance_filter)

MainSortKey(r, sort_by) ==
    CASE sort_by = "Distance" -> MainDistance(r).value
      [] sort_by = "Rating" -> r.rating
      [] sort_by = "Review Count" -> Rat(r.review_count, 1)

MainSortKinds == {"Distance", "Rating", "Review Count"}

\* lines 82-87 and 123-179 of main on the rows of the CSV file, with the
\* values w the filter widgets hold
main(rows, w) ==
    LET Sorted(reviewed) ==
            IF w.sort_by \in MainSortKinds
            THEN SortByKey(reviewed,
                           [k \in 1..Len(reviewed) |->
                               MainSortKey(reviewed[k], w.sort_by)],
                           w.sort_order = "Descending")
            ELSE reviewed
        Reviewed(capped) ==
            Sorted(SelectSeq(capped, LAMBDA r :
                        /\ RatLeq(w.min_rating, r.rating)
                        /\ r.review_count >= w.min_reviews))
        Capped(loaded) ==
            Reviewed(SelectSeq(loaded,
                               LAMBDA r : WithinDistance(r, w.distance_filter)))
    IN  IF rows = <<>> THEN [raised |-> FALSE, result |-> <<>>]
        ELSE IF \E k \in 1..Len(rows) : "reviews" \notin DOMAIN rows[k]
        THEN [raised |-> TRUE, exc |-> "KeyError"]
        ELSE IF \E k \in 1..Len(rows) : MainDistance(rows[k]).exc # "none"
        THEN [raised |-> TRUE,
              exc |-> MainDistance(rows[Leftmost({k \in 1..Len(rows) :
                          MainDistance(rows[k]).exc # "none"})]).exc]
        ELSE [raised |-> FALSE,
              result |-> Capped([k \in 1..Len(rows) |-> WithReviews(rows[k])])]

\* line 128: the largest distance of the rows, the upper end of the slider
MaxDistanceOk(rows, distance_filter) ==
    (rows # <<>> /\ \A k \in 1..Len(rows) : MainDistance(rows[k]).exc = "none")
        => \E k \in 1..Len(rows) : RatLeq(distance_filter, MainDistance(rows[k]).value)

(***************************************************************************)
(* The records, rows and widget values of the model.                       *)
(***************************************************************************)
N_A == <<"A"," ","P","i","z","z","a">>

N_B == <<"B"," ","W","i","n","g","s">>

N_C == <<"C"," ","D","i","n","e","r">>

N_D == <<"D"," ","G","r","i","l","l">>

N_E == <<"E"," ","C","a","f","e">>

N_F == <<"F"," ","B","a","r">>

T_pizza == <<"p","i","z","z","a">>

T_WINGS == <<"W","I","N","G","S">>

T_lunch == <<"l","u","n","c","h">>

Mi_2_0 == <<"2",".","0"," ","m","i">>

Mi_5_0 == <<"5",".","0"," ","m","i">>

Mi_0_5 == <<"0",".","5"," ","m","i">>

L_Unknown == <<"U","n","k","n","o","w","n">>

D_FriesPizza == <<"F","r","e","e"," ","f","r","i","e","s"," ","w","i","t","h"," ","a","n","y"," ","p","i","z","z","a">>

D_LunchSpecial == <<"L","u","n","c","h"," ","s","p","e","c","i","a","l">>

D_Feast == <<"H","a","l","f","-","p","r","i","c","e"," ","w","i","n","g","s"," ","-",">"," ","$","2","5"," ","f","a","m","i","l","y"," ","f","e","a","s","t">>

V_4_0_50 == <<"4",".","0","/","5"," ","(","5","0"," ","r","e","v","i","e","w","s",")">>

V_4_8_10 == <<"4",".","8","/","5"," ","(","1","0"," ","r","e","v","i","e","w","s",")">>

V_8_6_120 == <<"8",".","6","/","1","0"," ","(","1","2","0"," ","r","e","v","i","e","w","s",")">>

\* normalized records, as the filter pipeline of filters.py receives them
R_A == [name |-> N_A, rating |-> Rat(40, 10), review_count |-> 50,
        distance |-> Mi_2_0, summarized_deals |-> D_FriesPizza,
        detailed_deals |-> D_LunchSpecial]

R_B == [name |-> N_B, rating |-> Rat(48, 10), review_count |-> 10,
        distance |-> Mi_5_0, deals |-> D_Wings]

R_C == [name |-> N_C, rating |-> Rat(43, 10), review_count |-> 2804,
        distance |-> Mi_0_5, summarized_deals |-> D_Feast,
        detailed_deals |-> D_Lunch, deals |-> <<>>]

R_D == [name |-> N_D, rating |-> Rat(40, 10), review_count |-> 50,
        distance |-> L_Unknown]

R_E == [name |-> N_E, rating |-> Rat(45, 10), review_count |-> 120,
        distance |-> PyNone, summarized_deals |-> <<>>,
        detailed_deals |-> D_TwentyEach]

R_F == [name |-> N_F, deals |-> D_Catering]

FilterRecords == {R_A, R_B, R_C, R_D, R_E, R_F}

\* rows of the CSV file, as the page of app.py loads them
M_A == [name |-> N_A, reviews |-> V_4_0_50, distance |-> Mi_2_0]

M_B == [name |-> N_B, reviews |-> V_4_8_10, distance |-> Mi_5_0]

M_C == [name |-> N_C, reviews |-> V_8_6_120, distance |-> Mi_0_5]

M_D == [name |-> N_D, reviews |-> L_NoReviewsYet, distance |-> L_Unknown]

M_F == [name |-> N_F, reviews |-> V_4_0_50]

MainRows == {M_A, M_B, M_C, M_D, M_F}

\* the sequences over S of length at most n
SeqUpTo(S, n) == UNION {[1..k -> S] : k \in 0..n}

FilterParams ==
    [fn : {"apply_filters_and_sorting"},
     min_rating : {Rat(0, 1), Rat(8, 1)},
     min_reviews : {0, 50},
     sort_by : SortKinds,
     sort_order : {"Ascending", "Descending"},
     name_filter : {<<>>, T_pizza},
     deals_filter : {<<>>, T_WINGS, T_lunch},
     max_price : {Rat(10, 1), Inf}]

MainWidgets ==
    [fn : {"main"},
     distance_filter : {Rat(5, 10), Rat(3, 1), Rat(5, 1)},
     min_rating : {Rat(0, 1), Rat(45, 10)},
     min_reviews : {0, 50},
     sort_by : MainSortKinds,
     sort_order : {"Descending", "Ascending"}]

(***************************************************************************)
(* The pages: the initial state holds the loaded collection and the values *)
(* of the filter widgets, the action is one run of the filter step.        *)
(***************************************************************************)
Init ==
    /\ op = "init"
    /\ session_state = <<>>
    /\ files = <<>>
    /\ store = <<>>
    /\ ret = Idle
    /\ \/ /\ restaurants \in SeqUpTo(FilterRecords, MaxRestaurants)
          /\ arg \in FilterParams
       \/ /\ restaurants \in SeqUpTo(MainRows, MaxRestaurants)
          /\ arg \in MainWidgets
          /\ MaxDistanceOk(restaurants, arg.distance_filter)

ApplyFiltersAndSorting ==
    /\ op = "init"
    /\ arg.fn = "apply_filters_and_sorting"
    /\ op' = "apply_filters_and_sorting"
    /\ ret' = apply_filters_and_sorting(restaurants, arg)
    /\ restaurants' = ArgumentAfter(restaurants, arg)
    /\ UNCHANGED <<arg, session_state, files, store>>

Main ==
    /\ op = "init"
    /\ arg.fn = "main"
    /\ op' = "main"
    /\ ret' = main(restaurants, arg)
    /\ UNCHANGED <<arg, restaurants, session_state, files, store>>

\* the page runs again with the widgets unchanged: the same call on the same
\* collection, which the first call left as it was (the filtered list is a
\* new list, line 201)
ApplyFiltersAndSortingAgain ==
    /\ op = "apply_filters_and_sorting"
    /\ ~ret.raised
    /\ op' = "apply_filters_and_sorting_again"
    /\ ret' = [first |-> ret.result,
               second |-> apply_filters_and_sorting(restaurants, arg)]
    /\ restaurants' = ArgumentAfter(restaurants, arg)
    /\ UNCHANGED <<arg, session_state, files, store>>

\* the list the call returned is given to the call once more
ApplyFiltersAndSortingToResult ==
    /\ op = "apply_filters_and_sorting"
    /\ ~ret.raised
    /\ op' = "apply_filters_and_sorting_to_result"
    /\ ret' = [first |-> ret.result,
               second |-> apply_filters_and_sorting(ret.result, arg)]
    /\ UNCHANGED <<arg, restaurants, session_state, files, store>>

Next ==
    \/ ApplyFiltersAndSorting
    \/ Main
    \/ ApplyFiltersAndSortingAgain
    \/ ApplyFiltersAndSortingToResult

Spec == Init /\ [][Next]_vars

(***************************************************************************)
(* Properties of the filter steps.                                         *)
(***************************************************************************)
\* the distance written in a "<float> mi" string
StoredMiles(r) == ParseFloat(FirstPart(r.distance).part).value

NoUsableDistance(r) ==
    \/ "distance" \notin DOMAIN r
    \/ ~FirstPart(r.distance).ok
    \/ ~ParseFloat(FirstPart(r.distance).part).ok

\* C7: a record with no distance field, or with an unparseable distance
\* such as "Unknown", does not make the distance-cap filter fail and is
\* never excluded by it: its distance counts as 0.0.
C7_NoDistanceNeverExcluded ==
    op = "main"
        => /\ ~ret.raised
           /\ \A k \in 1..Len(restaurants) :
                (/\ NoUsableDistance(restaurants[k])
                 /\ arg.min_rating = Rat(0, 1)
                 /\ arg.min_reviews = 0)
                    => \E j \in 1..Len(ret.result) :
                            ret.result[j].name = restaurants[k].name

\* some extracted price of r is at most max_price, or r has none
NoPriceOrOneWithin(r, max_price) ==
    LET prices == extract_all_prices_from_deals(r)
    IN  \/ prices = <<>>
        \/ \E k \in 1..Len(prices) : RatLeq(prices[k], max_price)

\* C8: the price filter keeps a record if and only if it has no extractable
\* price or at least one extracted price is <= max_price; a record with no
\* priced deal is never removed, for every max_price.
C8_PriceFilterKeepsUnpricedAndWithin ==
    (op = "apply_filters_and_sorting" /\ ~ret.raised)
        => /\ ret.after_price =
                SelectSeq(ret.after_deals,
                          LAMBDA r : IsInf(arg.max_price)
                                        \/ NoPriceOrOneWithin(r, arg.max_price))
           /\ \A k \in 1..Len(ret.after_deals) :
                extract_all_prices_from_deals(ret.after_deals[k]) = <<>>
                    => \E j \in 1..Len(ret.after_price) :
                            ret.after_price[j] = ret.after_deals[k]

\* under max_price 10 the record priced at 12 went and the unpriced stayed
C8_Witness ==
    /\ op = "apply_filters_and_sorting"
    /\ restaurants = <<R_B, R_A>>
    /\ arg.max_price = Rat(10, 1)
    /\ ~ret.raised
    /\ ret.after_deals = <<R_B, R_A>>
    /\ ret.after_price = <<R_A>>

\* r meets both review thresholds, a missing rating or count being 0
MeetsReviewThresholds(r, min_rating, min_reviews) ==
    LET rating == IF "rating" \in DOMAIN r THEN r.rating ELSE Rat(0, 1)
        count == IF "review_count" \in DOMAIN r THEN r.review_count ELSE 0
    IN  /\ RatLeq(min_rating, Rat(2 * rating.n, rating.d))
        /\ count >= min_reviews

\* C9: every record returned has rating >= min_rating/2 and review_count >=
\* min_reviews, and the review step removes no input record that meets both
\* thresholds; a missing rating or review_count counts as 0.
C9_ReviewThresholds ==
    (op = "apply_filters_and_sorting" /\ ~ret.raised)
        => /\ \A k \in 1..Len(ret.result) :
                MeetsReviewThresholds(ret.result[k], arg.min_rating, arg.min_reviews)
           /\ ret.after_reviews =
                SelectSeq(restaurants,
                          LAMBDA r : MeetsReviewThresholds(r, arg.min_rating,
                                                           arg.min_reviews))

\* with min_rating 8 and min_reviews 50, the record at exactly 4.0 and 50
\* stayed and the record without rating and count went
C9_Witness ==
    /\ op = "apply_filters_and_sorting"
    /\ restaurants = <<R_A, R_F>>
    /\ arg.min_rating = Rat(8, 1)
    /\ arg.min_reviews = 50
    /\ ~ret.raised
    /\ ret.after_reviews = <<R_A>>

\* the lower-cased filter text occurs in the lower-cased text of one of the
\* three deal fields of r
SomeDealFieldContains(r, deals_filter) ==
    \E f \in {"summarized_deals", "detailed_deals", "deals"} :
        /\ f \in DOMAIN r
        /\ r[f] # <<>>
        /\ Contains(Lower(r[f]), Lower(deals_filter))

\* C10: with a non-empty deals filter a record is kept if and only if the
\* lower-cased filter text is a substring of the lower-cased text of at
\* least one of summarized_deals, detailed_deals or deals; a record with
\* none of the three populated is removed; an empty filter removes nothing.
C10_DealsFilterAnyField ==
    (op = "apply_filters_and_sorting" /\ ~ret.raised)
        => IF arg.deals_filter = <<>>
           THEN ret.after_deals = ret.after_name
           ELSE ret.after_deals =
                    SelectSeq(ret.after_name,
                              LAMBDA r : SomeDealFieldContains(r, arg.deals_filter))

\* "WINGS" kept the record whose legacy deals field says "Wings" and removed
\* the record without deal fields
C10_Witness ==
    /\ op = "apply_filters_and_sorting"
    /\ restaurants = <<R_B, R_D>>
    /\ arg.deals_filter = T_WINGS
    /\ ~ret.raised
    /\ ret.after_name = <<R_B, R_D>>
    /\ ret.after_deals = <<R_B>>

\* the sort key as stated: the parsed miles or 0.0, the rating or 0, the
\* review count or 0, the lowest extracted price or +infinity
StatedKey(r, sort_by) ==
    CASE sort_by = "Distance" ->
            IF NoUsableDistance(r) THEN Rat(0, 1)
            ELSE ParseFloat(FirstPart(r.distance).part).value
      [] sort_by = "Rating" ->
            IF "rating" \in DOMAIN r THEN r.rating ELSE Rat(0, 1)
      [] sort_by = "Review Count" ->
            Rat(IF "review_count" \in DOMAIN r THEN r.review_count ELSE 0, 1)
      [] sort_by = "Price" -> extract_price_from_deals(r)

\* a <= b on keys that may be +infinity
StatedKeyLeq(a, b) ==
    IF IsInf(b) THEN TRUE ELSE IF IsInf(a) THEN FALSE ELSE RatLeq(a, b)

\* C11: for each of the four sort keys the returned sequence is ordered by
\* that key, non-decreasing for Ascending and non-increasing for Descending,
\* missing values counting as 0.0 distance, 0 rating, 0 reviews and
\* +infinity price; A (4.0) and B (4.8) by Rating Descending give [B, A].
C11_ResultOrderedByKey ==
    (op = "apply_filters_and_sorting" /\ ~ret.raised)
        => /\ \A i, j \in 1..Len(ret.result) :
                i < j =>
                    IF arg.sort_order = "Descending"
                    THEN StatedKeyLeq(StatedKey(ret.result[j], arg.sort_by),
                                      StatedKey(ret.result[i], arg.sort_by))
                    ELSE StatedKeyLeq(StatedKey(ret.result[i], arg.sort_by),
                                      StatedKey(ret.result[j], arg.sort_by))
           /\ (/\ restaurants = <<R_A, R_B>>
               /\ arg.sort_by = "Rating"
               /\ arg.sort_order = "Descending"
               /\ arg.min_rating = Rat(0, 1)
               /\ arg.min_reviews = 0
               /\ arg.name_filter = <<>>
               /\ arg.deals_filter = <<>>
               /\ IsInf(arg.max_price))
                => ret.result = <<R_B, R_A>>

\* A and B sorted by Rating Descending came back as [B, A]
C11_Witness ==
    /\ op = "apply_filters_and_sorting"
    /\ restaurants = <<R_A, R_B>>
    /\ arg.sort_by = "Rating"
    /\ arg.sort_order = "Descending"
    /\ ~ret.raised
    /\ ret.result = <<R_B, R_A>>

\* the two keys are equal
StatedKeyEq(a, b) == StatedKeyLeq(a, b) /\ StatedKeyLeq(b, a)

\* the ways to read `out` as records of `in`: out[k] is in[pos[k]], no
\* record of `in` used twice
Origins(out, in) ==
    {pos \in [1..Len(out) -> 1..Len(in)] :
        /\ \A k \in 1..Len(out) : out[k] = in[pos[k]]
        /\ \A i, j \in 1..Len(out) : i # j => pos[i] # pos[j]}

\* C12: the sort is stable in both directions: two returned records with
\* equal sort keys stand in the output in the order they had in the input
\* collection, for Ascending and for Descending.
C12_SortIsStable ==
    (op = "apply_filters_and_sorting" /\ ~ret.raised)
        => \E pos \in Origins(ret.result, restaurants) :
                \A i, j \in 1..Len(ret.result) :
                    (/\ i < j
                     /\ StatedKeyEq(StatedKey(ret.result[i], arg.sort_by),
                                    StatedKey(ret.result[j], arg.sort_by)))
                        => pos[i] < pos[j]

\* D before A, both rated 4.0 and distinct, sorted by Rating Descending, came
\* back as D before A
C12_Witness ==
    /\ op = "apply_filters_and_sorting"
    /\ restaurants = <<R_D, R_A>>
    /\ arg.sort_by = "Rating"
    /\ arg.sort_order = "Descending"
    /\ ~ret.raised
    /\ ret.result = <<R_D, R_A>>

\* r has no extractable price
Unpriced(r) == extract_all_prices_from_deals(r) = <<>>

\* C13: sorted by Price, every record without an extractable price stands
\* after all priced records in Ascending order and before all priced records
\* in Descending order.
C13_UnpricedLastAscendingFirstDescending ==
    (op = "apply_filters_and_sorting" /\ ~ret.raised /\ arg.sort_by = "Price")
        => \A i, j \in 1..Len(ret.result) :
                (Unpriced(ret.result[i]) /\ ~Unpriced(ret.result[j]))
                    => IF arg.sort_order = "Descending" THEN i < j ELSE j < i

\* the unpriced D and the priced C, sorted by Price Ascending, came back as
\* C before D
C13_Witness ==
    /\ op = "apply_filters_and_sorting"
    /\ restaurants = <<R_D, R_C>>
    /\ arg.sort_by = "Price"
    /\ arg.sort_order = "Ascending"
    /\ ~ret.raised
    /\ ret.result = <<R_C, R_D>>

\* C14: filtering is idempotent: the same call on the same collection
\* returns the same sequence again, and the call on its own result returns
\* that result (same records, same order).
C14_FilterIdempotent ==
    op \in {"apply_filters_and_sorting_again", "apply_filters_and_sorting_to_result"}
        => /\ ~ret.second.raised
           /\ ret.second.result = ret.first

\* a sorted result with a tie, given to the call again, came back unchanged
C14_Witness ==
    /\ op = "apply_filters_and_sorting_to_result"
    /\ restaurants = <<R_D, R_A>>
    /\ arg.sort_by = "Rating"
    /\ arg.sort_order = "Descending"
    /\ IsInf(arg.max_price)
    /\ Len(ret.first) = Len(restaurants)
    /\ ret.second.result = ret.first

NoCoords == [none |-> TRUE]

Coords(lat, lng) == [lat |-> lat, lng |-> lng]

HasCoords(c) == "lat" \in DOMAIN c

\* downtown Winnipeg, 49.8951, -97.1384
Downtown == Coords(Rat(498951, 10000), Rat(0 - 971384, 10000))

PembinaArea == Coords(Rat(498155, 10000), Rat(0 - 971531, 10000))

KenastonArea == Coords(Rat(498372, 10000), Rat(0 - 972055, 10000))

NessArea == Coords(Rat(498788, 10000), Rat(0 - 972210, 10000))

KeenlysideArea == Coords(Rat(499121, 10000), Rat(0 - 970623, 10000))

\* the character class [-\d.]
CoordChars == Digit \cup {"-", "."}

\* the regex <<"(","[","-","\\","d",".","]","+",")",",","(","[","-","\\","d",".","]","+",")"," ","m","a","t","c","h","e","d"," ","w","i","t","h"," ","i","t","s"," ","\"">>" at i
AtPatternAt(s, i) ==
    LET Groups(a, b) ==
            [ok |-> At(s, i) = "@" /\ a > i + 1 /\ At(s, a) = "," /\ b > a + 1,
             lat |-> SubSeq(s, i + 1, a - 1),
             lng |-> SubSeq(s, a + 1, b - 1)]
        Second(a) == Groups(a, RunEnd(s, a + 1, CoordChars))
    IN  Second(RunEnd(s, i + 1, CoordChars))

\* re.search(lit + r'([-\d.]+)', s): the group of the leftmost match
MarkerSearch(s, lit) ==
    LET Match(i) ==
            IF i = 0 THEN [ok |-> FALSE]
            ELSE [ok |-> TRUE,
                  group |-> SubSeq(s, i + Len(lit),
                                   RunEnd(s, i + Len(lit), CoordChars) - 1)]
    IN  Match(Leftmost({k \in 1..Len(s) :
                 /\ StartsAt(s, k, lit)
                 /\ RunEnd(s, k + Len(lit), CoordChars) > k + Len(lit)}))

L_2d == <<"!","2","d">>

L_3d == <<"!","3","d">>

L_geocode == <<"g","e","o","c","o","d","e","=">>

L_daddr == <<"d","a","d","d","r","=">>

L_Winnipeg == <<"W","i","n","n","i","p","e","g">>

L_Pembina == <<"P","e","m","b","i","n","a">>

L_Kenaston == <<"K","e","n","a","s","t","o","n">>

L_Sterling == <<"S","t","e","r","l","i","n","g">>

L_Ness == <<"N","e","s","s">>

L_Keenlyside == <<"K","e","e","n","l","y","s","i","d","e">>

\* re.search(r'daddr=([^&]+)', s) finds a match
DaddrFound(s) ==
    \E k \in 1..Len(s) :
        StartsAt(s, k, L_daddr) /\ At(s, k + Len(L_daddr)) \notin {"", "&"}

\* the variant of FloatPair that takes the first group as the longitude
FloatPairSwapped(lat, lng) ==
    LET Pair(x, y) == IF x.ok /\ y.ok THEN Coords(y.value, x.value) ELSE NoCoords
    IN  Pair(ParseFloat(lat), ParseFloat(lng))

\* float() of both groups, ValueError caught by the except clause
FloatPair(lat, lng) ==
    LET Pair(x, y) == IF x.ok /\ y.ok THEN Coords(x.value, y.value) ELSE NoCoords
    IN  Pair(ParseFloat(lat), ParseFloat(lng))

extract_coordinates_from_maps_url(maps_url) ==
    LET Found(m, lng_match, lat_match) ==
        IF m.ok
        THEN FloatPair(m.lat, m.lng)
        ELSE IF lat_match.ok /\ lng_match.ok
        THEN FloatPair(lat_match.group, lng_match.group)
        ELSE IF /\ Contains(maps_url, L_geocode)
                /\ DaddrFound(maps_url)
                /\ Contains(maps_url, L_Winnipeg)
        THEN IF Contains(maps_url, L_Pembina) THEN PembinaArea
             ELSE IF Contains(maps_url, L_Kenaston) THEN KenastonArea
             ELSE IF Contains(maps_url, L_Sterling) THEN KenastonArea
             ELSE IF Contains(maps_url, L_Ness) THEN NessArea
             ELSE IF Contains(maps_url, L_Keenlyside) THEN KeenlysideArea
             ELSE Downtown
        ELSE NoCoords
        AtMatch(i) == IF i = 0 THEN [ok |-> FALSE] ELSE AtPatternAt(maps_url, i)
    IN  Found(AtMatch(Leftmost({k \in 1..Len(maps_url) :
                                    AtPatternAt(maps_url, k).ok})),
              MarkerSearch(maps_url, L_2d),
              MarkerSearch(maps_url, L_3d))

get_winnipeg_coordinates_by_area(location) ==
    LET Area(l) ==
            IF Contains(l, Lower(L_Pembina)) THEN PembinaArea
            ELSE IF Contains(l, Lower(L_Kenaston)) THEN KenastonArea
            ELSE IF Contains(l, Lower(L_Sterling)) THEN KenastonArea
            ELSE IF Contains(l, Lower(L_Ness)) THEN NessArea
            ELSE IF Contains(l, Lower(L_Keenlyside)) THEN KeenlysideArea
            ELSE Downtown
    IN  Area(Lower(location))

\* geocode_address: nothing for an empty address, else what the geocoding
\* service answers (found), which may be nothing
geocode_address(address, found) == IF address = <<>> THEN NoCoords ELSE found

(***************************************************************************)
(* restaurant_utils.process_restaurant_data: the rows of the sheet         *)
(***************************************************************************)
\* a record r with the fields of the record u set or added
Updated(r, u) ==
    [f \in DOMAIN r \cup DOMAIN u |-> IF f \in DOMAIN u THEN u[f] ELSE r[f]]

\* lines 35-50: rating and count from reviews_data, else from reviews
RowReviews(row) ==
    IF HasText(row, "reviews_data") THEN parse_reviews(row.reviews_data)
    ELSE IF HasText(row, "reviews") THEN parse_reviews(row.reviews)
    ELSE [raised |-> FALSE, rating |-> Rat(0, 1), count |-> 0]

\* line 57: no coordinates yet; invoked and wrote list, in the order of the
\* run, the strategies that were called and those that set the coordinates
NoCoordinatesYet ==
    [has_coordinates |-> FALSE, at |-> NoCoords, invoked |-> <<>>, wrote |-> <<>>]

\* a strategy was called and answered c: a pair is stored, nothing is not
Answered(s, by, c) ==
    IF HasCoords(c)
    THEN [has_coordinates |-> TRUE, at |-> c,
          invoked |-> Append(s.invoked, by), wrote |-> Append(s.wrote, by)]
    ELSE [has_coordinates |-> s.has_coordinates, at |-> s.at,
          invoked |-> Append(s.invoked, by), wrote |-> s.wrote]

\* the variant of TryMapsUrl that does not look at has_coordinates
TryMapsUrlAlways(row, s) ==
    IF HasText(row, "maps_url")
    THEN Answered(s, "maps_url", extract_coordinates_from_maps_url(row.maps_url))
    ELSE s

\* lines 60-67: the address, when there is one; found is the answer of the
\* geocoding service for this row
TryAddress(row, found, s) ==
    IF HasText(row, "address")
    THEN Answered(s, "address", geocode_address(row.address, found))
    ELSE s

\* lines 70-76: the maps_url, when nothing is stored yet
TryMapsUrl(row, s) ==
    IF ~s.has_coordinates /\ HasText(row, "maps_url")
    THEN Answered(s, "maps_url", extract_coordinates_from_maps_url(row.maps_url))
    ELSE s

\* lines 79-85: the area of the location, when nothing is stored yet
TryLocation(row, s) ==
    IF ~s.has_coordinates /\ "location" \in DOMAIN row
    THEN Answered(s, "location", get_winnipeg_coordinates_by_area(row.location))
    ELSE s

\* lines 88-91: downtown Winnipeg, when nothing is stored yet
UseDowntown(s) ==
    IF ~s.has_coordinates
    THEN [has_coordinates |-> FALSE, at |-> Downtown,
          invoked |-> Append(s.invoked, "downtown"),
          wrote |-> Append(s.wrote, "downtown")]
    ELSE s

\* lines 57-91: the coordinates of one row and how they were found
RowCoordinates(row, found) ==
    UseDowntown(TryLocation(row,
        TryMapsUrl(row, TryAddress(row, found, NoCoordinatesYet))))

\* one row processed
ProcessedRow(row, found) ==
    LET Stored(rv, c) ==
            Updated(row,
                [rating |-> rv.rating, review_count |-> rv.count,
                 distance |-> IF "distance" \in DOMAIN row THEN row.distance
                              ELSE L_Unknown,
                 latitude |-> c.at.lat, longitude |-> c.at.lng])
    IN  Stored(RowReviews(row), RowCoordinates(row, found))

\* process_restaurant_data on the rows of the data frame; found[k] is the
\* answer of the geocoding service for row k. resolution is the record of the
\* run of lines 57-91 on each row, kept beside the returned list.
process_restaurant_data(df, found) ==
    [raised |-> FALSE,
     result |-> [k \in 1..Len(df) |-> ProcessedRow(df[k], found[k])],
     resolution |-> [k \in 1..Len(df) |-> RowCoordinates(df[k], found[k])]]

(***************************************************************************)
(* supabase_client.process_restaurant_data_from_db: the rows of the store  *)
(***************************************************************************)
\* Python's None where a number is expected
NoneNum == [none |-> TRUE]

\* the fields that hold numbers
NumberFields == {"rating", "review_count", "latitude", "longitude"}

\* `r[f] is None`
IsNone(r, f) == IF f \in NumberFields THEN r[f] = NoneNum ELSE r[f] = PyNone

L_Rating == <<"R","a","t","i","n","g",":"," ">>

L_Sharp == <<"#">>

\* str() of a number: an int, or a float with one decimal
FormatNumber(x) ==
    IF x.d = 1 THEN NatToDigits(x.n)
    ELSE NatToDigits(x.n \div 10) \o <<".", DigitChar(x.n % 10)>>

\* lines 401-412: database field names copied to the names the pages use
FieldMapped(row) ==
    LET from == [rating |-> "average_rating", review_count |-> "reviews_count",
                 website |-> "website_url", logo_url |-> "logo_url",
                 maps_url |-> "maps_url"]
    IN  [f \in DOMAIN row \cup {u \in DOMAIN from : from[u] \in DOMAIN row} |->
            IF f \in DOMAIN from /\ from[f] \in DOMAIN row THEN row[from[f]]
            ELSE row[f]]

\* `field not in processed or processed[field] is None`
Missing(r, f) == f \notin DOMAIN r \/ IsNone(r, f)

\* lines 414-435: defaults of the missing fields
WithDefaults(r) ==
    LET d1 == Updated(r,
                [f \in {x \in {"rating", "review_count", "website"} : Missing(r, x)}
                       \cup {x \in {"distance"} : x \notin DOMAIN r} |->
                    CASE f = "rating" -> Rat(0, 10)
                      [] f = "review_count" -> Rat(0, 1)
                      [] f = "website" -> L_Sharp
                      [] f = "distance" -> L_Unknown])
        d2 == IF "location" \in DOMAIN d1 THEN d1
              ELSE Updated(d1, [location |-> IF "address" \in DOMAIN d1
                                             THEN d1.address ELSE <<>>])
    IN  Updated(d2,
            [f \in {x \in {"address", "logo_url", "maps_url", "menu_url"} :
                        Missing(d2, x)} |-> <<>>])

\* lines 437-461: the review text, the deal fields and the coordinates
WithReviewsAndCoordinates(r) ==
    LET text == IF r.review_count.n > 0
                THEN L_Rating \o FormatNumber(r.rating) \o <<"/","1","0">>
                ELSE <<>>
        d1 == Updated(r, [reviews_data |-> text, reviews |-> text])
        d2 == Updated(d1,
                [f \in {x \in {"deals", "summarized_deals", "detailed_deals"} :
                            Missing(d1, x)} |-> <<>>])
    IN  IF Missing(d2, "latitude") \/ Missing(d2, "longitude")
        THEN Updated(d2, [latitude |-> Downtown.lat, longitude |-> Downtown.lng])
        ELSE d2

process_restaurant_data_from_db(rows) ==
    [raised |-> FALSE,
     result |-> [k \in 1..Len(rows) |->
                    WithReviewsAndCoordinates(WithDefaults(FieldMapped(rows[k])))]]

(***************************************************************************)
(* db_data_utils.process_restaurant_locations: the distance from the user  *)
(***************************************************************************)
L_mi == <<" ","m","i">>

Mi_0_1 == <<"0",".","1"," ","m","i">>

\* line 61: the session holds a location with both coordinates
HasUserLocation(user_location) ==
    /\ "latitude" \in DOMAIN user_location
    /\ user_location.latitude # NoneNum
    /\ user_location.longitude # NoneNum

\* line 62
HasRestaurantCoords(restaurant) ==
    /\ "latitude" \in DOMAIN restaurant
    /\ "longitude" \in DOMAIN restaurant
    /\ restaurant.latitude # NoneNum
    /\ restaurant.longitude # NoneNum

\* f"{distance_mi:.1f}" of a mile value given in thousandths: rounded to the
\* nearest tenth; a value halfway between two tenths goes to the even one
\* (exact for the halves a binary float holds exactly, as .25 and .75)
FormatOneDecimal(thousandths) ==
    LET Text(tenths) ==
            NatToDigits(tenths \div 10) \o <<".", DigitChar(tenths % 10)>>
        Rounded(q, rest) ==
            IF rest < 50 THEN q
            ELSE IF rest > 50 THEN q + 1
            ELSE IF q % 2 = 0 THEN q ELSE q + 1
    IN  Text(Rounded(thousandths \div 100, thousandths % 100))

\* the variant of LocationDistance without the test of line 77
LocationDistanceNoFloor(distance_mi) == FormatOneDecimal(distance_mi) \o L_mi

\* lines 77-80: the stored text of a mile value given in thousandths
LocationDistance(distance_mi) ==
    IF distance_mi < 100 THEN Mi_0_1
    ELSE FormatOneDecimal(distance_mi) \o L_mi

\* lines 50-82; distance_mi[k] is the mile value lines 66-74 compute for
\* record k, in thousandths
process_restaurant_locations(rs, user_location, distance_mi) ==
    IF rs = <<>> THEN <<>>
    ELSE [k \in 1..Len(rs) |->
            IF HasUserLocation(user_location) /\ HasRestaurantCoords(rs[k])
            THEN Updated(rs[k], [distance |-> LocationDistance(distance_mi[k])])
            ELSE rs[k]]

(***************************************************************************)
(* The rows of the model and the two normalization paths run on them.      *)
(***************************************************************************)
MaxRows == 2

U_At == <<"m","/","@","4","9",".","8","1","5","5",",","-","9","7",".","1","5","3","1",",","1","7","z">>

U_3d2d == <<"m","/","d","a","t","a","=","!","3","d","4","9",".","8","7","8","8","!","2","d","-","9","7",".","2","2","1","0">>

U_Daddr == <<"m","/","?","g","e","o","c","o","d","e","=","K","V","k","&","d","a","d","d","r","=","9","+","K","e","n","a","s","t","o","n","+","B","l","v","d",",","+","W","i","n","n","i","p","e","g">>

U_None == <<"m","/","?","q","=","p","i","z","z","a">>

U_BadAt == <<"m","/","@","4","9",".","8",".","1",",","-","9","7">>

A_Main == <<"9"," ","M","a","i","n"," ","S","t">>

A_Pembina == <<"1"," ","P","e","m","b","i","n","a"," ","H","w","y">>

A_Ness == <<"N","e","s","s"," ","A","v","e","n","u","e">>

W_Site == <<"h","t","t","p","s",":","/","/","a",".","e","x","a","m","p","l","e">>

W_Logo == <<"l","o","g","o",".","p","n","g">>

V_7_5 == <<"7","/","5"," ","(","7"," ","r","e","v","i","e","w","s",")">>

V_New == RenderReview("new", 2804, Rat(86, 10), 10)

V_Legacy == RenderReview("legacy", 120, Rat(45, 10), 5)

V_ZeroMax == RenderReview("legacy", 7, Rat(4, 1), 0)

\* rows of the sheet
S_1 == [name |-> N_A, reviews_data |-> V_New, address |-> A_Main,
        maps_url |-> U_At, location |-> A_Pembina]

S_2 == [name |-> N_B, reviews |-> V_Legacy, maps_url |-> U_3d2d,
        location |-> A_Ness, distance |-> Mi_2_0]

S_3 == [name |-> N_C, reviews_data |-> <<>>, reviews |-> V_7_5,
        address |-> <<>>, maps_url |-> U_None, location |-> A_Ness]

S_4 == [name |-> N_D, reviews |-> V_ZeroMax, maps_url |-> U_Daddr]

S_5 == [name |-> N_E, maps_url |-> U_BadAt]

S_6 == [name |-> N_F, reviews_data |-> L_NoReviewsYet, address |-> A_Pembina,
        location |-> <<>>]

SheetRows == {S_1, S_2, S_3, S_4, S_5, S_6}

\* what the geocoding service may answer
GeocodeAnswers == {NoCoords, Coords(Rat(499000, 10000), Rat(0 - 971000, 10000))}

\* rows of the Restaurants table
B_1 == [id |-> 1, name |-> N_A, average_rating |-> Rat(86, 10),
        reviews_count |-> Rat(2804, 1), website_url |-> W_Site,
        logo_url |-> W_Logo, maps_url |-> U_At, address |-> A_Main,
        summarized_deals |-> D_FriesPizza, detailed_deals |-> D_LunchSpecial,
        deals |-> D_FriesPizza]

B_2 == [id |-> 2, name |-> N_B, average_rating |-> NoneNum,
        reviews_count |-> NoneNum, website_url |-> PyNone, logo_url |-> PyNone,
        maps_url |-> PyNone, address |-> PyNone, menu_url |-> PyNone]

B_3 == [id |-> 3, name |-> N_C]

B_4 == [id |-> 4, name |-> N_D, average_rating |-> Rat(45, 10),
        reviews_count |-> Rat(120, 1), address |-> A_Pembina,
        location |-> PyNone, latitude |-> Rat(498155, 10000),
        longitude |-> Rat(0 - 971531, 10000)]

B_5 == [id |-> 5, name |-> N_E, average_rating |-> Rat(5, 1),
        reviews_count |-> Rat(0, 1), distance |-> Mi_5_0]

B_6 == [id |-> 6, name |-> N_F, average_rating |-> Rat(10, 1),
        reviews_count |-> Rat(7, 1), menu_url |-> W_Site]

StoreRows == {B_1, B_2, B_3, B_4, B_5, B_6}

\* what the session may hold as the location of the user: None, a location
\* without coordinates, downtown Winnipeg (the fallback of the lookup by IP)
\* and a point elsewhere in the city
UserLocations ==
    {NoCoords,
     [latitude |-> NoneNum, longitude |-> NoneNum],
     [latitude |-> Downtown.lat, longitude |-> Downtown.lng],
     [latitude |-> Rat(498155, 10000), longitude |-> Rat(0 - 971531, 10000)]}

\* mile values in thousandths that the Haversine formula may give: the same
\* point, just under and exactly a tenth, a half between two tenths, one that
\* rounds up to the next whole mile, and one with two digits
MileValues == {0, 99, 100, 250, 951, 12345}

NormalizeCalls ==
    {[fn |-> "process_restaurant_data", df |-> df, found |-> found] :
        df \in SeqUpTo(SheetRows, MaxRows),
        found \in [1..MaxRows -> GeocodeAnswers]}
    \cup
    {[fn |-> "process_restaurant_data_from_db", rows |-> rows] :
        rows \in SeqUpTo(StoreRows, MaxRows)}

InitNormalize ==
    /\ op = "init"
    /\ session_state = <<>>
    /\ files = <<>>
    /\ store = <<>>
    /\ arg \in NormalizeCalls
    /\ ret = Idle
    /\ restaurants = <<>>

ProcessRestaurantData ==
    /\ op = "init"
    /\ arg.fn = "process_restaurant_data"
    /\ op' = "process_restaurant_data"
    /\ ret' = process_restaurant_data(arg.df, arg.found)
    /\ restaurants' = ret'.result
    /\ UNCHANGED <<arg, session_state, files, store>>

ProcessRestaurantDataFromDb ==
    /\ op = "init"
    /\ arg.fn = "process_restaurant_data_from_db"
    /\ op' = "process_restaurant_data_from_db"
    /\ ret' = process_restaurant_data_from_db(arg.rows)
    /\ restaurants' = ret'.result
    /\ UNCHANGED <<arg, session_state, files, store>>

\* process_restaurant_data is called a second time. Line 15 caches the result
\* of a call for an hour under its argument: a call with the same data frame
\* inside the hour returns the stored list ("cached"); after the hour the rows
\* are processed again ("inputs"), and a call on the records the first run
\* enriched is a call with another argument ("enriched"). The rows that are
\* processed again are geocoded again, and found2 is what the geocoding service
\* answers this time.
ProcessRestaurantDataAgain ==
    /\ op = "process_restaurant_data"
    /\ \E from \in {"cached", "inputs", "enriched"} :
       \E found2 \in [1..MaxRows -> GeocodeAnswers] :
          /\ from = "cached" => found2 = arg.found
          /\ ret' = [from |-> from,
                     found2 |-> found2,
                     first |-> ret.result,
                     second |->
                        CASE from = "cached" -> ret.result
                          [] from = "inputs" ->
                                process_restaurant_data(arg.df, found2).result
                          [] from = "enriched" ->
                                process_restaurant_data(ret.result, found2).result]
    /\ op' = "process_restaurant_data_again"
    /\ restaurants' = ret'.second
    /\ UNCHANGED <<arg, session_state, files, store>>

\* the records loaded from the store get their distance from the user. The
\* value of calculate_distance (distance_utils.py:6-27) times 0.621371 is taken
\* as any of MileValues for each record.
ProcessRestaurantLocations ==
    /\ op = "process_restaurant_data_from_db"
    /\ \E user_location \in UserLocations :
       \E distance_mi \in [1..Len(restaurants) -> MileValues] :
          ret' = [raised |-> FALSE,
                  user_location |-> user_location,
                  distance_mi |-> distance_mi,
                  before |-> restaurants,
                  result |-> process_restaurant_locations(
                                restaurants, user_location, distance_mi)]
    /\ op' = "process_restaurant_locations"
    /\ restaurants' = ret'.result
    /\ UNCHANGED <<arg, session_state, files, store>>

NextNormalize ==
    \/ ProcessRestaurantData
    \/ ProcessRestaurantDataFromDb
    \/ ProcessRestaurantDataAgain
    \/ ProcessRestaurantLocations

SpecNormalize == InitNormalize /\ [][NextNormalize]_vars

\* C1: every record produced by either normalization path has a rating in
\* [0, 5], whatever scale and whatever value/max pair the source supplied.
C1_RatingWithinFiveStars ==
    op \in {"process_restaurant_data", "process_restaurant_data_from_db"}
        => \A k \in 1..Len(restaurants) :
                /\ RatLeq(Rat(0, 1), restaurants[k].rating)
                /\ RatLeq(restaurants[k].rating, Rat(5, 1))

\* the four strategies in the order of their priority
StrategyOrder == <<"address", "maps_url", "location", "downtown">>

StrategyRank(by) == CHOOSE k \in 1..Len(StrategyOrder) : StrategyOrder[k] = by

\* what strategy `by` yields for the row: a pair or nothing
Yields(row, found, by) ==
    CASE by = "address" ->
            IF HasText(row, "address") THEN geocode_address(row.address, found)
            ELSE NoCoords
      [] by = "maps_url" ->
            IF HasText(row, "maps_url")
            THEN extract_coordinates_from_maps_url(row.maps_url)
            ELSE NoCoords
      [] by = "location" ->
            IF "location" \in DOMAIN row
            THEN get_winnipeg_coordinates_by_area(row.location)
            ELSE NoCoords
      [] by = "downtown" -> Downtown

\* the first strategy, in the order of priority, that yields a pair
FirstYielding(row, found) ==
    StrategyOrder[CHOOSE k \in 1..Len(StrategyOrder) :
        /\ HasCoords(Yields(row, found, StrategyOrder[k]))
        /\ \A j \in 1..(k - 1) : ~HasCoords(Yields(row, found, StrategyOrder[j]))]

\* C15: process_restaurant_data calls the strategies in the order address,
\* maps_url, location, downtown; exactly one of them stores its pair, namely
\* the first that yields one; none is called after it, and the stored
\* latitude/longitude are its pair.
C15_FirstStrategyWins ==
    op = "process_restaurant_data"
        => \A k \in 1..Len(arg.df) :
             /\ \A i, j \in 1..Len(ret.resolution[k].invoked) :
                    i < j => StrategyRank(ret.resolution[k].invoked[i])
                                < StrategyRank(ret.resolution[k].invoked[j])
             /\ ret.resolution[k].wrote
                    = <<FirstYielding(arg.df[k], arg.found[k])>>
             /\ ret.resolution[k].invoked[Len(ret.resolution[k].invoked)]
                    = FirstYielding(arg.df[k], arg.found[k])
             /\ Coords(restaurants[k].latitude, restaurants[k].longitude)
                    = Yields(arg.df[k], arg.found[k],
                             FirstYielding(arg.df[k], arg.found[k]))

\* the address of the first row was geocoded and its maps_url, which holds
\* another pair, was not read; the second row fell through a maps_url without
\* a pair to downtown
C15_Witness ==
    /\ op = "process_restaurant_data"
    /\ arg.df = <<S_1, S_5>>
    /\ HasCoords(arg.found[1])
    /\ ret.resolution[1].invoked = <<"address">>
    /\ HasCoords(extract_coordinates_from_maps_url(S_1.maps_url))
    /\ restaurants[1].latitude = arg.found[1].lat
    /\ ret.resolution[2].invoked = <<"maps_url", "downtown">>
    /\ ret.resolution[2].wrote = <<"downtown">>
    /\ restaurants[2].latitude = Downtown.lat

\* C16: a second run of the coordinate resolution of process_restaurant_data,
\* on the same rows or on the records the first run enriched, stores the same
\* latitude/longitude as the first run for every record.
C16_ResolutionIdempotent ==
    op = "process_restaurant_data_again"
        => \A k \in 1..Len(ret.first) :
             /\ ret.second[k].latitude = ret.first[k].latitude
             /\ ret.second[k].longitude = ret.first[k].longitude

\* the text is digits, a point, one digit and " mi"
IsMilesText(s) ==
    /\ Len(s) >= 6
    /\ \A i \in 1..(Len(s) - 6) \cup {Len(s) - 5, Len(s) - 3} : s[i] \in Digit
    /\ s[Len(s) - 4] = "."
    /\ SubSeq(s, Len(s) - 2, Len(s)) = L_mi

\* C17: after process_restaurant_locations every record with user and
\* restaurant coordinates has a distance text "<x.x> mi" whose value is at
\* least 0.1: a mile value below 0.1 is stored as "0.1 mi", and "0.0 mi" is
\* never stored.
C17_DistanceTextAtLeastTenth ==
    op = "process_restaurant_locations"
        => \A k \in 1..Len(restaurants) :
             HasUserLocation(ret.user_location) /\ HasRestaurantCoords(ret.before[k])
                => /\ IsMilesText(restaurants[k].distance)
                   /\ restaurants[k].distance # <<"0",".","0"," ","m","i">>
                   /\ ~get_distance_value(restaurants[k]).raised
                   /\ RatLeq(Rat(1, 10), get_distance_value(restaurants[k]).value)
                   /\ ret.distance_mi[k] < 100
                        => restaurants[k].distance = <<"0",".","1"," ","m","i">>

\* a user at the place of the first record and 0.951 mi from the second: the
\* texts are "0.1 mi" and "1.0 mi"
C17_Witness ==
    /\ op = "process_restaurant_locations"
    /\ Len(restaurants) = 2
    /\ HasUserLocation(ret.user_location)
    /\ ret.distance_mi = <<0, 951>>
    /\ restaurants[1].distance = <<"0",".","1"," ","m","i">>
    /\ restaurants[2].distance = <<"1",".","0"," ","m","i">>

\* C19: after process_restaurant_data_from_db the fields address, location,
\* logo_url, maps_url, menu_url and website of every record are there and are
\* text, never None; address, logo_url, maps_url and menu_url are empty and
\* website is "#" when the row of the store lacks the value or holds null.
C19_TextFieldsDefaulted ==
    op = "process_restaurant_data_from_db"
        => \A k \in 1..Len(restaurants) :
             /\ \A f \in {"address", "location", "logo_url", "maps_url",
                          "menu_url", "website"} :
                    f \in DOMAIN restaurants[k] /\ restaurants[k][f] # PyNone
             /\ \A f \in {"address", "logo_url", "maps_url", "menu_url"} :
                    Missing(FieldMapped(arg.rows[k]), f) => restaurants[k][f] = <<>>
             /\ Missing(FieldMapped(arg.rows[k]), "website")
                    => restaurants[k].website = L_Sharp

(***************************************************************************)
(* supabase_client.get_restaurants joins the deals of a restaurant, and    *)
(* deal_display._display_detailed_deals splits them again.                 *)
(***************************************************************************)
MaxDeals == 3

L_Arrow == <<"-",">">>

L_ArrowSpaced == <<" ","-",">"," ">>

\* sep.join(parts)
RECURSIVE Join(_, _)
Join(parts, sep) ==
    IF parts = <<>> THEN <<>>
    ELSE IF Len(parts) = 1 THEN parts[1]
    ELSE parts[1] \o sep \o Join(Tail(parts), sep)

\* s.split(sep) from position i on, the current part starting at start
RECURSIVE SplitFrom(_, _, _, _)
SplitFrom(s, sep, start, i) ==
    IF i + Len(sep) - 1 > Len(s) THEN <<SubSeq(s, start, Len(s))>>
    ELSE IF StartsAt(s, i, sep)
    THEN <<SubSeq(s, start, i - 1)>>
            \o SplitFrom(s, sep, i + Len(sep), i + Len(sep))
    ELSE SplitFrom(s, sep, start, i + 1)

Split(s, sep) == SplitFrom(s, sep, 1, 1)

\* s.strip()
Strip(s) ==
    LET Kept(inked) ==
            IF inked = {} THEN <<>>
            ELSE SubSeq(s, CHOOSE a \in inked : \A b \in inked : a <= b,
                           CHOOSE a \in inked : \A b \in inked : b <= a)
    IN  Kept({k \in 1..Len(s) : s[k] \notin Whitespace})

\* deal.get(field, '')
DealGet(deal, field) == IF field \in DOMAIN deal THEN deal[field] ELSE <<>>

\* supabase_client.py lines 278-298: the deals of one restaurant joined into
\* its three text fields; a restaurant without deals is left as it is
WithDeals(restaurant, restaurant_deals_list) ==
    LET Joined(summarized_deals, detailed_deals) ==
            Updated(restaurant,
                [summarized_deals |-> Join(summarized_deals, L_ArrowSpaced),
                 detailed_deals |-> Join(detailed_deals, L_ArrowSpaced),
                 deals |-> Join(summarized_deals, L_ArrowSpaced)])
    IN  IF restaurant_deals_list = <<>> THEN restaurant
        ELSE Joined([k \in 1..Len(restaurant_deals_list) |->
                        DealGet(restaurant_deals_list[k], "summarized_deal")],
                    [k \in 1..Len(restaurant_deals_list) |->
                        DealGet(restaurant_deals_list[k], "details")])

\* deal_display.py lines 25-28
has_detailed_deals(restaurant) ==
    HasText(restaurant, "summarized_deals") /\ HasText(restaurant, "detailed_deals")

\* [deal.strip() for deal in text.split('->') if deal.strip()]
DealList(text) ==
    LET Stripped(parts) == [k \in 1..Len(parts) |-> Strip(parts[k])]
    IN  SelectSeq(Stripped(Split(text, L_Arrow)), LAMBDA d : d # <<>>)

\* the first n of xs, all of xs when it has fewer
Truncated(xs, n) == SubSeq(xs, 1, IF n < Len(xs) THEN n ELSE Len(xs))

\* lines 65-77: the triples (i, summary, detail) of zip(), those matching the
\* text filter when there is one
filter_detailed_deals(summarized_list, detailed_list, text_filter) ==
    LET Triples(n) ==
            [k \in 1..n |-> [i |-> k - 1, summary |-> summarized_list[k],
                             detail |-> detailed_list[k]]]
        Zipped(n) ==
            SelectSeq(Triples(n),
                LAMBDA t : \/ text_filter = <<>>
                           \/ Contains(Lower(t.summary), Lower(text_filter))
                           \/ Contains(Lower(t.detail), Lower(text_filter)))
    IN  Zipped(IF Len(summarized_list) < Len(detailed_list)
               THEN Len(summarized_list) ELSE Len(detailed_list))

\* lines 35-63: what is rendered, with the two lists as they were zipped
display_detailed_deals(restaurant, text_filter) ==
    LET Cut(summarized_list, detailed_list, min_length) ==
            [summarized_list |-> Truncated(summarized_list, min_length),
             detailed_list |-> Truncated(detailed_list, min_length),
             rendered |-> filter_detailed_deals(
                            Truncated(summarized_list, min_length),
                            Truncated(detailed_list, min_length), text_filter)]
        Lists(summarized_list, detailed_list) ==
            Cut(summarized_list, detailed_list,
                IF Len(summarized_list) < Len(detailed_list)
                THEN Len(summarized_list) ELSE Len(detailed_list))
    IN  Lists(DealList(restaurant.summarized_deals),
              DealList(restaurant.detailed_deals))

\* rows of the Deals table of one restaurant
Dl_1 == [restaurant_id |-> 1, summarized_deal |-> <<"A">>,
         details |-> <<"X"," ","x">>]

Dl_2 == [restaurant_id |-> 1, summarized_deal |-> <<"B">>, details |-> <<"Y">>]

Dl_3 == [restaurant_id |-> 1, summarized_deal |-> <<>>, details |-> <<"Z">>]

Dl_4 == [restaurant_id |-> 1, summarized_deal |-> <<"C">>]

Dl_5 == [restaurant_id |-> 1, summarized_deal |-> <<"D","-",">","E">>,
         details |-> <<"W">>]

DealRows == {Dl_1, Dl_2, Dl_3, Dl_4, Dl_5}

DealCalls ==
    [fn : {"get_restaurants"},
     deals : SeqUpTo(DealRows, MaxDeals),
     text_filter : {<<>>, <<"b">>}]

InitDeals ==
    /\ op = "init"
    /\ session_state = <<>>
    /\ files = <<>>
    /\ arg \in DealCalls
    /\ store = [Restaurants |-> <<[id |-> 1, name |-> N_A]>>,
                Deals |-> arg.deals]
    /\ ret = Idle
    /\ restaurants = <<>>

\* supabase_client.py lines 263-268: the Deals rows grouped by restaurant_id,
\* each group in table order
DealsOf(deals, restaurant_id) ==
    LET OfRestaurant(deal) == deal.restaurant_id = restaurant_id
    IN  SelectSeq(deals, OfRestaurant)

\* ' -> '.join(parts) raises TypeError when a part is None
JoinRaises(restaurant_deals_list, field) ==
    \E k \in 1..Len(restaurant_deals_list) :
        DealGet(restaurant_deals_list[k], field) = PyNone

\* supabase_client.py lines 221-307 with filters=None: every exception of the
\* body, a failed fetch or a failed join, is caught and [] is returned
get_restaurants(rows, deals, fetched) ==
    LET Raises(row) ==
            \/ JoinRaises(DealsOf(deals, row.id), "summarized_deal")
            \/ JoinRaises(DealsOf(deals, row.id), "details")
    IN  IF ~fetched
        THEN [raised |-> FALSE, fetched |-> FALSE, result |-> <<>>]
        ELSE IF \E k \in 1..Len(rows) : Raises(rows[k])
        THEN [raised |-> FALSE, fetched |-> TRUE, result |-> <<>>]
        ELSE [raised |-> FALSE, fetched |-> TRUE,
              result |-> [k \in 1..Len(rows) |->
                            WithDeals(rows[k], DealsOf(deals, rows[k].id))]]

\* get_restaurants on the store; the two fetches succeed or one of them fails
GetRestaurants ==
    /\ op = "init"
    /\ arg.fn = "get_restaurants"
    /\ op' = "get_restaurants"
    /\ \E fetched \in BOOLEAN :
          ret' = get_restaurants(store.Restaurants, store.Deals, fetched)
    /\ restaurants' = ret'.result
    /\ UNCHANGED <<arg, session_state, files, store>>

\* the deal section of the restaurant is drawn; display_deal_section calls
\* _display_detailed_deals when both texts are there (lines 16-17)
DisplayDetailedDeals ==
    /\ op = "get_restaurants"
    /\ restaurants # <<>>
    /\ has_detailed_deals(restaurants[1])
    /\ op' = "display_detailed_deals"
    /\ ret' = display_detailed_deals(restaurants[1], arg.text_filter)
    /\ UNCHANGED <<arg, restaurants, session_state, files, store>>

NextDeals == GetRestaurants \/ DisplayDetailedDeals

SpecDeals == InitDeals /\ [][NextDeals]_vars

\* C18: the summaries and details that the deal display zips are paired by
\* position: entry i of each comes from deal d_i of the restaurant, and when
\* the two split lists differ in length both are cut to the shorter one.
C18_DealsPairedByPosition ==
    op = "display_detailed_deals"
        => /\ Len(ret.summarized_list) = Len(ret.detailed_list)
           /\ \A i \in 1..Len(ret.summarized_list) :
                /\ i <= Len(arg.deals)
                /\ ret.summarized_list[i]
                        = Strip(DealGet(arg.deals[i], "summarized_deal"))
                /\ ret.detailed_list[i] = Strip(DealGet(arg.deals[i], "details"))

\* C29: the record-level and the display-level deal filters agree: a
\* restaurant that passes the deals filter of apply_filters_and_sorting with a
\* non-empty text is drawn, with the same text, with at least one deal, each
\* drawn deal matching the text, and not with the "No deals matching" message.
C29_DealFiltersAgree ==
    (/\ op = "display_detailed_deals"
     /\ arg.text_filter # <<>>
     /\ DealMatch(restaurants[1], arg.text_filter))
        => /\ ret.rendered # <<>>
           /\ \A k \in 1..Len(ret.rendered) :
                \/ Contains(Lower(ret.rendered[k].summary), Lower(arg.text_filter))
                \/ Contains(Lower(ret.rendered[k].detail), Lower(arg.text_filter))

(***************************************************************************)
(* get_restaurants on a store with several restaurants, deals of other     *)
(* restaurants and deal rows whose summary or details are null.            *)
(***************************************************************************)
Q_1 == [id |-> 1, name |-> N_A]

Q_2 == [id |-> 2, name |-> N_B]

StoreRestaurants == {<<>>, <<Q_1>>, <<Q_1, Q_2>>, <<Q_2, Q_1>>}

StoreDeals ==
    [restaurant_id : {1, 2, 3},
     summarized_deal : {<<"A">>, <<"B">>, PyNone},
     details : {<<"X">>, PyNone}]

InitStore ==
    /\ op = "init"
    /\ session_state = <<>>
    /\ files = <<>>
    /\ arg = [fn |-> "get_restaurants", text_filter |-> <<>>]
    /\ store \in [Restaurants : StoreRestaurants,
                  Deals : SeqUpTo(StoreDeals, MaxDeals)]
    /\ ret = Idle
    /\ restaurants = <<>>

SpecStore == InitStore /\ [][NextDeals]_vars

\* the texts of the given field of the deals, in order
FieldsOf(deals, field) == [k \in 1..Len(deals) |-> DealGet(deals[k], field)]

\* C25: whenever both fetches succeed, get_restaurants returns one record per
\* fetched restaurant row, in order, and a restaurant none of whose deal rows
\* holds a null has its summarized_deals and detailed_deals joined from exactly
\* the Deals rows with its id, in table order; a null in a deal row of any
\* restaurant drops nothing.
C25_OneRecordPerRestaurant ==
    (op = "get_restaurants" /\ ret.fetched)
        => /\ Len(ret.result) = Len(store.Restaurants)
           /\ \A k \in 1..Len(store.Restaurants) :
                LET Expected(row, own) ==
                        /\ ret.result[k].id = row.id
                        /\ (own # <<>>
                            /\ ~JoinRaises(own, "summarized_deal")
                            /\ ~JoinRaises(own, "details"))
                              => /\ ret.result[k].summarized_deals
                                      = Join(FieldsOf(own, "summarized_deal"),
                                             L_ArrowSpaced)
                                 /\ ret.result[k].detailed_deals
                                      = Join(FieldsOf(own, "details"),
                                             L_ArrowSpaced)
                        /\ own = <<>> => ret.result[k] = row
                IN  Expected(store.Restaurants[k],
                             DealsOf(store.Deals, store.Restaurants[k].id))

(***************************************************************************)
(* The login: auth_utils, the callbacks of auth_page and the admin page.   *)
(***************************************************************************)
L_admin == <<"a","d","m","i","n">>

L_GiladEmail == <<"g","i","l","a","d",".","r","o","d","o","v","@","g","m","a","i","l",".","c","o","m">>

L_WelcomeBack == <<"W","e","l","c","o","m","e"," ","b","a","c","k",","," ">>

E_Admin == <<"A","d","m","i","n">>

E_boss == <<"b","@","x">>

E_user == <<"u","@","x">>

E_none == <<"n","@","x">>

P_ADMIN == <<"A","D","M","I","N">>

P_pw == <<"p","w">>

P_no == <<"n","o">>

\* hashlib.sha256(password.encode()).hexdigest(): a text that no password of
\* the model is, different for different passwords
hash_password(password) == <<"sha256:">> \o password

\* the rows of the Users table: role 1 is Admin, 2 is User; one password is
\* stored as a hash, one as plain text
Users ==
    {[email |-> E_boss, password |-> hash_password(P_pw), role |-> 1],
     [email |-> E_user, password |-> P_pw, role |-> 2],
     [email |-> L_GiladEmail, password |-> hash_password(P_no), role |-> 1]}

NoUser == [none |-> TRUE]

\* supabase_client.get_user: the row with this email, or None
get_user(email) ==
    IF \E u \in Users : u.email = email
    THEN CHOOSE u \in Users : u.email = email
    ELSE NoUser

\* auth_utils.py lines 61-108
authenticate_user(email, password) ==
    LET Checked(user_data) ==
            IF user_data = NoUser THEN FALSE
            ELSE IF password = user_data.password THEN TRUE
            ELSE hash_password(password) = user_data.password
    IN  IF Lower(email) = L_admin /\ password = L_admin THEN TRUE
        ELSE IF Lower(email) = L_GiladEmail /\ Lower(password) = L_admin THEN TRUE
        ELSE Checked(get_user(email))

\* auth_utils.py lines 143-162
is_admin(email) ==
    LET Role(user_data) ==
            IF user_data = NoUser \/ "role" \notin DOMAIN user_data THEN FALSE
            ELSE user_data.role = 1
    IN  IF Lower(email) = L_admin THEN TRUE ELSE Role(get_user(email))

\* auth_page.py lines 11-22 on an empty session
initialize_auth_state ==
    [authenticated |-> FALSE, username |-> PyNone, auth_page |-> "main",
     success_message |-> <<>>, page |-> "main"]

\* lines 24-26
set_auth_page(session, page) == Updated(session, [auth_page |-> page])

\* lines 28-30
set_page(session, page) == Updated(session, [page |-> page])

\* lines 32-46
login_callback(session, email, password) ==
    IF authenticate_user(email, password)
    THEN Updated(session,
            [authenticated |-> TRUE, username |-> email, auth_page |-> "main",
             success_message |-> L_WelcomeBack \o email \o <<"!">>])
    ELSE session

\* lines 70-74
logout(session) ==
    Updated(session, [authenticated |-> FALSE, username |-> PyNone, page |-> "main"])

\* session.get(key, default)
SessionGet(session, key, default) ==
    IF key \in DOMAIN session THEN session[key] ELSE default

\* the variant of display_admin_page without the test of lines 29-32
display_admin_page_logged_in_only(session, back_to_main) ==
    IF ~SessionGet(session, "authenticated", FALSE)
    THEN [shown |-> "login_error", session |-> session]
    ELSE IF back_to_main
    THEN [shown |-> "rerun", session |-> Updated(session, [page |-> "main"])]
    ELSE [shown |-> "tabs", session |-> session]

\* admin_page.py lines 16-72: what is shown and the session afterwards;
\* back_to_main is whether the button of line 35 was pressed
display_admin_page(session, back_to_main) ==
    LET Permitted(username) ==
            IF username = PyNone \/ username = <<>> THEN FALSE
            ELSE is_admin(username)
    IN  IF ~SessionGet(session, "authenticated", FALSE)
        THEN [shown |-> "login_error", session |-> session]
        ELSE IF ~Permitted(SessionGet(session, "username", PyNone))
        THEN [shown |-> "permission_error", session |-> session]
        ELSE IF back_to_main
        THEN [shown |-> "rerun", session |-> Updated(session, [page |-> "main"])]
        ELSE [shown |-> "tabs", session |-> session]

\* what may be typed into the login form
LoginEmails == {L_admin, E_Admin, E_boss, E_user, E_none, L_GiladEmail}

LoginPasswords == {L_admin, P_ADMIN, P_pw, P_no}

InitAuth ==
    /\ op = "init"
    /\ arg = Idle
    /\ ret = Idle
    /\ restaurants = <<>>
    /\ session_state = initialize_auth_state
    /\ files = <<>>
    /\ store = <<>>

\* a button with on_click=set_auth_page is pressed: Login or Register on the
\* main page when nobody is logged in (lines 97-102), the back and the other
\* buttons on the login and register pages (lines 113, 123, 130, 143)
SetAuthPage ==
    /\ \E page \in {"main", "login", "register"} :
          /\ \/ /\ session_state.auth_page = "main"
                /\ ~session_state.authenticated
                /\ page \in {"login", "register"}
             \/ /\ session_state.auth_page \in {"login", "register"}
                /\ page # session_state.auth_page
          /\ arg' = [page |-> page]
          /\ session_state' = set_auth_page(session_state, page)
    /\ op' = "set_auth_page"
    /\ ret' = Idle
    /\ UNCHANGED <<restaurants, files, store>>

\* the login form is submitted (line 121)
LoginCallback ==
    /\ session_state.auth_page = "login"
    /\ \E email \in LoginEmails, password \in LoginPasswords :
          /\ arg' = [email |-> email, password |-> password]
          /\ session_state' = login_callback(session_state, email, password)
          /\ ret' = [result |-> authenticate_user(email, password)]
    /\ op' = "login_callback"
    /\ UNCHANGED <<restaurants, files, store>>

\* the button with the user's name is pressed (lines 89, 94)
Logout ==
    /\ session_state.auth_page = "main"
    /\ session_state.authenticated
    /\ op' = "logout"
    /\ arg' = Idle
    /\ ret' = Idle
    /\ session_state' = logout(session_state)
    /\ UNCHANGED <<restaurants, files, store>>

\* the Admin Dashboard button, drawn for an admin who is logged in (line 87)
SetPage ==
    /\ session_state.auth_page = "main"
    /\ session_state.authenticated
    /\ is_admin(session_state.username)
    /\ op' = "set_page"
    /\ arg' = [page |-> "admin"]
    /\ ret' = Idle
    /\ session_state' = set_page(session_state, "admin")
    /\ UNCHANGED <<restaurants, files, store>>

\* display_admin_page is called, whatever the page and the login are
DisplayAdminPage ==
    /\ \E back_to_main \in BOOLEAN :
          /\ arg' = [back_to_main |-> back_to_main]
          /\ ret' = [shown |-> display_admin_page(session_state, back_to_main).shown]
          /\ session_state' = display_admin_page(session_state, back_to_main).session
    /\ op' = "display_admin_page"
    /\ UNCHANGED <<restaurants, files, store>>

NextAuth ==
    \/ SetAuthPage
    \/ LoginCallback
    \/ Logout
    \/ SetPage
    \/ DisplayAdminPage

SpecAuth == InitAuth /\ [][NextAuth]_vars

\* C20: display_admin_page shows the management tabs only when the session
\* is authenticated and is_admin holds of its username; logout leaves the
\* session unauthenticated, and a session becomes authenticated only by a
\* login_callback whose email and password authenticate_user accepts, so after
\* a logout the tabs are not shown before such a login.
C20_AdminTabsOnlyForAdmins ==
    [][/\ (op' = "display_admin_page" /\ ret'.shown = "tabs")
            => /\ session_state.authenticated
               /\ session_state.username # PyNone
               /\ is_admin(session_state.username)
               /\ session_state'.authenticated
       /\ op' = "logout" => ~session_state'.authenticated
       /\ (~session_state.authenticated /\ session_state'.authenticated)
            => /\ op' = "login_callback"
               /\ authenticate_user(arg'.email, arg'.password)]_vars

\* an admin of the Users table is logged in, went to the admin page and sees
\* the tabs
C20_Witness ==
    /\ op = "display_admin_page"
    /\ ret.shown = "tabs"
    /\ session_state.authenticated
    /\ session_state.username = E_boss
    /\ session_state.page = "admin"

\* C26: authenticate_user(email, password) returns True only if the store
\* holds a user record with that email whose stored password is the supplied
\* password or its SHA-256 hash.
C26_TrueOnlyForStoredPassword ==
    op = "login_callback"
        => (ret.result
              => \E u \in Users :
                    /\ u.email = arg.email
                    /\ \/ arg.password = u.password
                       \/ hash_password(arg.password) = u.password)

(***************************************************************************)
(* auth_utils.register_user in several browser sessions on one Users       *)
(* table.  Each request to the store is one step; a request can fail.      *)
(***************************************************************************)
MaxUsers == 3

Sessions == {1, 2}

RegisterEmails == {E_user, E_none}

\* supabase_client.py lines 72-88: a failed lookup is answered with False
user_exists(users, email, failed) ==
    IF failed THEN FALSE
    ELSE \E k \in 1..Len(users) : users[k].email = email

\* supabase_client.py lines 90-117: the table after the insert, and the answer
create_user(users, password, email, role_id, failed) ==
    IF failed THEN [users |-> users, result |-> FALSE]
    ELSE [users |-> Append(users, [password |-> password, email |-> email,
                                   role |-> role_id]),
          result |-> TRUE]

NotRegistering == [pc |-> "idle"]

InitRegister ==
    /\ op = "init"
    /\ arg = Idle
    /\ ret = Idle
    /\ restaurants = <<>>
    /\ files = <<>>
    /\ session_state = [s \in Sessions |-> NotRegistering]
    /\ store \in [Users : {<<>>,
                           <<[password |-> P_pw, email |-> E_user, role |-> 2]>>}]

\* auth_utils.py lines 44-47: register_user asks whether the email exists and
\* returns False when it does
RegisterUserExists ==
    \E s \in Sessions, email \in RegisterEmails, failed \in BOOLEAN :
        /\ session_state[s].pc = "idle"
        /\ op' = "register_user"
        /\ arg' = [session |-> s, email |-> email, password |-> P_pw,
                   lookup_failed |-> failed]
        /\ IF user_exists(store.Users, email, failed)
           THEN /\ ret' = [session |-> s, result |-> FALSE]
                /\ UNCHANGED session_state
           ELSE /\ ret' = Idle
                /\ session_state' =
                      [session_state EXCEPT ![s] =
                          [pc |-> "create", email |-> email, password |-> P_pw]]
        /\ UNCHANGED <<restaurants, files, store>>

\* auth_utils.py lines 49-59: the password is hashed, the role id is that of
\* "User", 2 also when get_role_id finds none, and the user is inserted
RegisterUserCreate ==
    \E s \in Sessions, failed \in BOOLEAN :
        /\ session_state[s].pc = "create"
        /\ Len(store.Users) < MaxUsers
        /\ op' = "create_user"
        /\ arg' = [session |-> s, email |-> session_state[s].email,
                   password |-> session_state[s].password,
                   insert_failed |-> failed]
        /\ LET Created(c) ==
                /\ store' = [store EXCEPT !.Users = c.users]
                /\ ret' = [session |-> s, result |-> c.result]
           IN  Created(create_user(store.Users,
                                   hash_password(session_state[s].password),
                                   session_state[s].email, 2, failed))
        /\ session_state' = [session_state EXCEPT ![s] = NotRegistering]
        /\ UNCHANGED <<restaurants, files>>

NextRegister == RegisterUserExists \/ RegisterUserCreate

SpecRegister == InitRegister /\ [][NextRegister]_vars

\* C27: after any sequence of register_user calls, interleaved across
\* sessions and with failing lookups, the Users table holds at most one
\* record per email.
C27_OneRecordPerEmail ==
    "Users" \in DOMAIN store
        => \A i, j \in 1..Len(store.Users) :
              store.Users[i].email = store.Users[j].email => i = j

(***************************************************************************)
(* startup_utils.clear_data_on_startup: the image files of the server and  *)
(* the browser sessions that render the page.                              *)
(***************************************************************************)
MaxRemovals == 3

LogoDir == "logo_images"

CACHE_DIR == "logo_cache"

\* the image files the pages may save, by directory
ImageFiles ==
    [dir : {LogoDir}, name : {"a.png", "b.png"}]
        \cup [dir : {CACHE_DIR}, name : {"a.png"}]

\* lines 16-47 in a session on a disk; removed is the set of files that
\* os.remove deleted before the loops ended or an exception was caught
clear_data_on_startup(session, disk, removed) ==
    IF "server_has_started" \notin DOMAIN session
    THEN [session |-> Updated(session, [server_has_started |-> TRUE]),
          disk |-> disk \ removed,
          cleared |-> TRUE]
    ELSE [session |-> session, disk |-> disk, cleared |-> FALSE]

\* the server starts: some images are left from the last run, no session yet.
\* files.removals counts the runs of lines 19-40 that deleted a file.
InitStartup ==
    /\ op = "init"
    /\ arg = Idle
    /\ ret = Idle
    /\ restaurants = <<>>
    /\ session_state = <<>>
    /\ files \in [disk : SUBSET ImageFiles, removals : {0}]
    /\ store = <<>>

\* a page render calls clear_data_on_startup in the session of the browser;
\* an exception in os.remove leaves part of a directory in place
ClearDataOnStartup ==
    /\ files.removals < MaxRemovals
    /\ \E removed \in SUBSET files.disk :
          /\ "server_has_started" \in DOMAIN session_state => removed = {}
          /\ ret' = [cleared |->
                        clear_data_on_startup(session_state, files.disk, removed).cleared,
                     removed |-> removed]
          /\ session_state' =
                clear_data_on_startup(session_state, files.disk, removed).session
          /\ files' =
                [disk |-> clear_data_on_startup(session_state, files.disk, removed).disk,
                 removals |-> IF clear_data_on_startup(session_state, files.disk,
                                                       removed).disk # files.disk
                              THEN files.removals + 1 ELSE files.removals]
    /\ op' = "clear_data_on_startup"
    /\ arg' = Idle
    /\ UNCHANGED <<restaurants, store>>

\* a browser opens the page or reloads it: Streamlit gives the connection a
\* new, empty session state
NewSession ==
    /\ op' = "new_session"
    /\ arg' = Idle
    /\ ret' = Idle
    /\ session_state' = <<>>
    /\ UNCHANGED <<restaurants, files, store>>

\* a render saves a logo it downloaded
SaveImage ==
    /\ "server_has_started" \in DOMAIN session_state
    /\ \E f \in ImageFiles \ files.disk :
          /\ arg' = f
          /\ files' = [files EXCEPT !.disk = @ \cup {f}]
    /\ op' = "save_image"
    /\ ret' = Idle
    /\ UNCHANGED <<restaurants, session_state, store>>

NextStartup == ClearDataOnStartup \/ NewSession \/ SaveImage

SpecStartup == InitStartup /\ [][NextStartup]_vars

\* C21: since the server started, whatever the renders and the browser
\* sessions, the logo and cache files were removed at most once.
C21_ClearedAtMostOnce == "removals" \in DOMAIN files => files.removals <= 1

(***************************************************************************)
(* distance_utils.calculate_distance.  An angle is the point of the unit   *)
(* circle it turns to, [cos, sin], so that the points with rational        *)
(* coordinates give exact sines and cosines.                               *)
(***************************************************************************)
RECURSIVE Gcd(_, _)
Gcd(m, n) == IF n = 0 THEN m ELSE Gcd(n, m % n)

\* the fraction n/d in lowest terms
Reduced(n, d) ==
    LET Over(g) == Rat(n \div g, d \div g)
    IN  Over(Gcd(IF n < 0 THEN 0 - n ELSE n, d))

RatAdd(a, b) == Reduced(a.n * b.d + b.n * a.d, a.d * b.d)

RatSub(a, b) == Reduced(a.n * b.d - b.n * a.d, a.d * b.d)

RatMul(a, b) == Reduced(a.n * b.n, a.d * b.d)

Angle(c, s) == [cos |-> c, sin |-> s]

\* the angle x - y (lines 21-22)
AngleDiff(x, y) ==
    Angle(RatAdd(RatMul(x.cos, y.cos), RatMul(x.sin, y.sin)),
          RatSub(RatMul(x.sin, y.cos), RatMul(x.cos, y.sin)))

\* math.sin(x/2)**2, which is (1 - cos x)/2
SinHalfSquared(x) == RatMul(Rat(1, 2), RatSub(Rat(1, 1), x.cos))

\* the variant of calculate_distance with cos(lat1) twice in line 23
calculate_distance_one_latitude(lat1, lon1, lat2, lon2) ==
    LET Haversine(dlon, dlat) ==
            RatAdd(SinHalfSquared(dlat),
                   RatMul(RatMul(lat1.cos, lat1.cos), SinHalfSquared(dlon)))
    IN  Haversine(AngleDiff(lon2, lon1), AngleDiff(lat2, lat1))

\* lines 18-23: the value a of the Haversine formula. Lines 24-27 return
\* 2 * 6371 * asin(sqrt(a)), which grows with a and is 0 exactly when a is 0.
calculate_distance(lat1, lon1, lat2, lon2) ==
    LET Haversine(dlon, dlat) ==
            RatAdd(SinHalfSquared(dlat),
                   RatMul(RatMul(lat1.cos, lat2.cos), SinHalfSquared(dlon)))
    IN  Haversine(AngleDiff(lon2, lon1), AngleDiff(lat2, lat1))

\* latitudes from the south pole to the north pole
Latitudes ==
    {Angle(Rat(0, 1), Rat(0 - 1, 1)), Angle(Rat(3, 5), Rat(0 - 4, 5)),
     Angle(Rat(1, 1), Rat(0, 1)), Angle(Rat(4, 5), Rat(3, 5)),
     Angle(Rat(5, 13), Rat(12, 13)), Angle(Rat(0, 1), Rat(1, 1))}

\* longitudes around the globe
Longitudes ==
    {Angle(Rat(1, 1), Rat(0, 1)), Angle(Rat(4, 5), Rat(3, 5)),
     Angle(Rat(0 - 3, 5), Rat(4, 5)), Angle(Rat(0 - 1, 1), Rat(0, 1)),
     Angle(Rat(0 - 5, 13), Rat(0 - 12, 13))}

\* numbers as a maps URL writes them, with the float they denote; the last
\* one is no float
LatTexts ==
    {[text |-> <<"4","9",".","8","1","5","5">>, ok |-> TRUE, value |-> Rat(498155, 10000)],
     [text |-> <<"5","0">>, ok |-> TRUE, value |-> Rat(50, 1)],
     [text |-> <<"4","9",".","8",".","1">>, ok |-> FALSE]}

LngTexts ==
    {[text |-> <<"-","9","7",".","1","5","3","1">>, ok |-> TRUE, value |-> Rat(0 - 971531, 10000)],
     [text |-> <<"-","9","7",".","2","5">>, ok |-> TRUE, value |-> Rat(0 - 9725, 100)]}

StreetNames == {<<>>, L_Pembina, L_Kenaston, L_Sterling, L_Ness, L_Keenlyside}

\* the maps URLs of the model by their shape: coordinates behind "@", behind
\* the markers !3d and !2d in either order, a route with a daddr= parameter
\* (with or without geocode=, the city and a street of the table), and a
\* search without any of these
MapsUrlInputs ==
    [shape : {"at"}, lat : LatTexts, lng : LngTexts]
        \cup [shape : {"3d2d", "2d3d"}, lat : LatTexts, lng : LngTexts]
        \cup [shape : {"daddr"}, geocode : BOOLEAN, city : BOOLEAN,
              street : StreetNames]
        \cup [shape : {"search"}]

\* the URL text of an input
RenderMapsUrl(in) ==
    CASE in.shape = "at" ->
            <<"m","/","@">> \o in.lat.text \o <<",">> \o in.lng.text \o <<",","1","7","z">>
      [] in.shape = "3d2d" ->
            <<"m","/","d","a","t","a","=","!","3","d">> \o in.lat.text \o L_2d \o in.lng.text
      [] in.shape = "2d3d" ->
            <<"m","/","d","a","t","a","=","!","2","d">> \o in.lng.text \o L_3d \o in.lat.text
      [] in.shape = "daddr" ->
            <<"m","/","?">> \o (IF in.geocode THEN L_geocode \o <<"K","V","k","&">> ELSE <<>>)
                \o L_daddr \o <<"9","+">> \o in.street \o <<"+","B","l","v","d">>
                \o (IF in.city THEN <<",","+">> \o L_Winnipeg ELSE <<>>)
      [] in.shape = "search" -> U_None

GeoCalls ==
    [fn : {"calculate_distance"}, lat1 : Latitudes, lon1 : Longitudes,
     lat2 : Latitudes, lon2 : Longitudes]
    \cup
    {[fn |-> "extract_coordinates_from_maps_url", in |-> in,
      maps_url |-> RenderMapsUrl(in)] : in \in MapsUrlInputs}

InitGeo ==
    /\ op = "init"
    /\ arg \in GeoCalls
    /\ ret = Idle
    /\ restaurants = <<>>
    /\ session_state = <<>>
    /\ files = <<>>
    /\ store = <<>>

CalculateDistance ==
    /\ op = "init"
    /\ arg.fn = "calculate_distance"
    /\ op' = "calculate_distance"
    /\ ret' = calculate_distance(arg.lat1, arg.lon1, arg.lat2, arg.lon2)
    /\ UNCHANGED <<arg, restaurants, session_state, files, store>>

\* the call again with the two points exchanged
CalculateDistanceSwapped ==
    /\ op = "calculate_distance"
    /\ op' = "calculate_distance_swapped"
    /\ ret' = [first |-> ret,
               second |-> calculate_distance(arg.lat2, arg.lon2, arg.lat1, arg.lon1)]
    /\ UNCHANGED <<arg, restaurants, session_state, files, store>>

ExtractCoordinatesFromMapsUrl ==
    /\ op = "init"
    /\ arg.fn = "extract_coordinates_from_maps_url"
    /\ op' = "extract_coordinates_from_maps_url"
    /\ ret' = extract_coordinates_from_maps_url(arg.maps_url)
    /\ UNCHANGED <<arg, restaurants, session_state, files, store>>

NextGeo ==
    \/ CalculateDistance
    \/ CalculateDistanceSwapped
    \/ ExtractCoordinatesFromMapsUrl

SpecGeo == InitGeo /\ [][NextGeo]_vars

\* C22: calculate_distance is 0 when the two points are the same, and gives
\* the same value when the two points are exchanged.
C22_ZeroOnSamePointAndSymmetric ==
    /\ (op = "calculate_distance" /\ arg.lat1 = arg.lat2 /\ arg.lon1 = arg.lon2)
            => RatEq(ret, Rat(0, 1))
    /\ op = "calculate_distance_swapped" => RatEq(ret.first, ret.second)

\* two different points, neither on the equator, with a distance that is not
\* 0 and is the same in both directions
C22_Witness ==
    /\ op = "calculate_distance_swapped"
    /\ arg.lat1 = Angle(Rat(4, 5), Rat(3, 5))
    /\ arg.lat2 = Angle(Rat(5, 13), Rat(12, 13))
    /\ arg.lon1 # arg.lon2
    /\ RatLt(Rat(0, 1), ret.first)
    /\ RatEq(ret.first, ret.second)

\* the distance of r has the form "<float> mi"
IsFloatMiles(r) ==
    /\ "distance" \in DOMAIN r
    /\ r.distance # PyNone
    /\ FirstPart(r.distance).ok
    /\ ParseFloat(FirstPart(r.distance).part).ok

\* C23: get_distance_value raises for no record and gives 0.0 when the
\* distance is absent or is not "<float> mi" ("Unknown", empty, None), so
\* apply_filters_and_sorting never fails when it sorts by Distance.
C23_DistanceValueNeverRaises ==
    op = "apply_filters_and_sorting"
        => /\ \A k \in 1..Len(restaurants) :
                /\ ~get_distance_value(restaurants[k]).raised
                /\ ~IsFloatMiles(restaurants[k])
                        => RatEq(get_distance_value(restaurants[k]).value, Rat(0, 1))
           /\ arg.sort_by = "Distance" => ~ret.raised

\* the coordinates of the table for a street name
StreetArea(street) ==
    CASE street = L_Pembina -> PembinaArea
      [] street = L_Kenaston -> KenastonArea
      [] street = L_Sterling -> KenastonArea
      [] street = L_Ness -> NessArea
      [] street = L_Keenlyside -> KeenlysideArea

\* both numbers of the input are floats
BothFloats(in) == in.lat.ok /\ in.lng.ok

\* C24 as stated: "@lat,lon" gives (lat, lon); "!2d<lon>!3d<lat>" gives (value
\* after !3d, value after !2d); a URL with a daddr= parameter that contains
\* "Winnipeg" and a street name of the table gives the coordinates of that
\* area; a URL matching none of the three gives (None, None).
C24_ThreePatternsResolved ==
    op = "extract_coordinates_from_maps_url"
        => /\ (arg.in.shape \in {"at", "3d2d", "2d3d"} /\ BothFloats(arg.in))
                => ret = Coords(arg.in.lat.value, arg.in.lng.value)
           /\ (arg.in.shape = "daddr" /\ arg.in.city /\ arg.in.street # <<>>)
                => ret = StreetArea(arg.in.street)
           /\ (arg.in.shape = "daddr" /\ ~(arg.in.city /\ arg.in.street # <<>>))
                => ret = NoCoords
           /\ arg.in.shape = "search" => ret = NoCoords

\* C24 as amended: the "@" and the !3d/!2d patterns give the two numbers when
\* both are floats and (None, None) when one is not; the daddr= pattern is
\* used only when the URL also contains "geocode=" and "Winnipeg", and then
\* gives the area of the street name, downtown Winnipeg when the URL names no
\* street of the table; every other URL gives (None, None).
C24_PatternsResolvedGeocodeRequired ==
    op = "extract_coordinates_from_maps_url"
        => /\ (arg.in.shape \in {"at", "3d2d", "2d3d"} /\ BothFloats(arg.in))
                => ret = Coords(arg.in.lat.value, arg.in.lng.value)
           /\ (arg.in.shape \in {"at", "3d2d", "2d3d"} /\ ~BothFloats(arg.in))
                => ret = NoCoords
           /\ (arg.in.shape = "daddr" /\ arg.in.geocode /\ arg.in.city)
                => ret = IF arg.in.street = <<>> THEN Downtown
                         ELSE StreetArea(arg.in.street)
           /\ (arg.in.shape = "daddr" /\ ~(arg.in.geocode /\ arg.in.city))
                => ret = NoCoords
           /\ arg.in.shape = "search" => ret = NoCoords

\* a route to Pembina in Winnipeg without geocode= gave nothing
C24_Witness ==
    /\ op = "extract_coordinates_from_maps_url"
    /\ arg.in = [shape |-> "daddr", geocode |-> FALSE, city |-> TRUE,
                 street |-> L_Pembina]
    /\ Contains(arg.maps_url, L_daddr)
    /\ Contains(arg.maps_url, L_Winnipeg)
    /\ ret = NoCoords

(***************************************************************************)
(* data_utils.download_google_sheet_data: the sheet, the data frame made   *)
(* of it, the local CSV file, and the frame read back from the file.  A    *)
(* cell of a frame is [text |-> s], [num |-> n] or NaN.                    *)
(***************************************************************************)
MaxSheetRows == 2

MaxDownloads == 3

NaN == [nan |-> TRUE]

SheetColumns == {"name", "deals"}

\* pd.DataFrame(), and a frame of rows
EmptyFrame == [rows |-> <<>>]

\* the text of a number: "5", or "5.0" in a float column
RECURSIVE NumText(_)
NumText(n) ==
    IF n < 10 THEN <<DigitChar(n)>>
    ELSE NumText(n \div 10) \o <<DigitChar(n % 10)>>

\* the text parses as a number: digits, with ".0" after them or not
IsNumberText(s) ==
    LET Digits(n) == n >= 1 /\ \A k \in 1..n : s[k] \in Digit
    IN  \/ Digits(Len(s))
        \/ Len(s) >= 3 /\ s[Len(s)] = "0" /\ s[Len(s) - 1] = "." /\ Digits(Len(s) - 2)

NumberOf(s) ==
    IF s[Len(s)] \in Digit /\ ~Contains(s, <<".">>) THEN DigitsToInt(s)
    ELSE DigitsToInt(SubSeq(s, 1, Len(s) - 2))

\* a column of texts parses as numbers when every cell is a number or empty
ColumnIsNumeric(texts, col) ==
    \A k \in 1..Len(texts) : texts[k][col] = <<>> \/ IsNumberText(texts[k][col])

NumericCell(s) == IF s = <<>> THEN NaN ELSE [num |-> NumberOf(s)]

\* data_handler.py lines 64-76: the frame of the rows of texts, each column
\* given to pd.to_numeric(errors='ignore'): a column that parses becomes
\* numbers, its empty cells NaN; any other column is left as its strings
FrameOfSheet(texts) ==
    [rows |-> [k \in 1..Len(texts) |->
                [col \in SheetColumns |->
                    IF ColumnIsNumeric(texts, col)
                    THEN NumericCell(texts[k][col])
                    ELSE [text |-> texts[k][col]]]]]

\* data_handler.py lines 21-93: the frame of the sheet, or the empty frame
\* when the sheet cannot be read or holds no data
load_from_google_sheets(sheet) ==
    IF sheet.kind = "data" THEN FrameOfSheet(sheet.rows) ELSE EmptyFrame

\* df.empty
IsEmptyFrame(df) == df.rows = <<>>

\* df.to_csv(local_file, index=False): the texts of the cells; NaN is
\* written as nothing, a number of a column with a NaN as a float
to_csv(df) ==
    LET HasNaN(col) == \E k \in 1..Len(df.rows) : df.rows[k][col] = NaN
        CellText(cell, col) ==
            IF cell = NaN THEN <<>>
            ELSE IF "num" \in DOMAIN cell
            THEN NumText(cell.num) \o (IF HasNaN(col) THEN <<".", "0">> ELSE <<>>)
            ELSE cell.text
    IN  [k \in 1..Len(df.rows) |->
            [col \in SheetColumns |-> CellText(df.rows[k][col], col)]]

\* pd.read_csv(local_file): a column that parses becomes numbers; in every
\* column an empty field is NaN
read_csv(texts) ==
    [rows |-> [k \in 1..Len(texts) |->
                [col \in SheetColumns |->
                    IF ColumnIsNumeric(texts, col) \/ texts[k][col] = <<>>
                    THEN NumericCell(texts[k][col])
                    ELSE [text |-> texts[k][col]]]]]

\* no file, or no frame; a file is [lines |-> the rows of field texts]
NoFile == [none |-> TRUE]

\* data_utils.py lines 10-63 on the local file `csv` and the answer of the
\* sheet: the frame returned and the file afterwards
download_google_sheet_data(csv, sheet) ==
    LET Loaded(local_data_exists, df) ==
            IF ~IsEmptyFrame(df)
            THEN [result |-> df, csv |-> [lines |-> to_csv(df)],
                  downloaded |-> TRUE]
            ELSE IF local_data_exists
            THEN [result |-> read_csv(csv.lines), csv |-> csv,
                  downloaded |-> FALSE]
            ELSE [result |-> EmptyFrame, csv |-> csv, downloaded |-> FALSE]
    IN  Loaded(csv # NoFile, load_from_google_sheets(sheet))

SheetTexts == [name : {<<"A">>, <<"7">>}, deals : {<<"x">>, <<>>, <<"5">>}]

\* what the sheet answers: an error, or the rows under the header
SheetAnswers ==
    {[kind |-> "failed"]}
        \cup [kind : {"data"}, rows : SeqUpTo(SheetTexts, MaxSheetRows)]

\* the server starts without a local file; files.last is the frame of the most
\* recent download that succeeded, files.runs counts the executions
InitDownload ==
    /\ op = "init"
    /\ arg = Idle
    /\ ret = Idle
    /\ restaurants = <<>>
    /\ session_state = <<>>
    /\ store = <<>>
    /\ files = [csv |-> NoFile, last |-> NoFile, runs |-> 0]

\* one execution of download_google_sheet_data (the cache of line 9 has no
\* entry or the entry is older than an hour)
DownloadGoogleSheetData ==
    /\ files.runs < MaxDownloads
    /\ \E sheet \in SheetAnswers :
          /\ arg' = sheet
          /\ ret' = download_google_sheet_data(files.csv, sheet)
    /\ files' = [csv |-> ret'.csv,
                 last |-> IF ret'.downloaded THEN ret'.result ELSE files.last,
                 runs |-> files.runs + 1]
    /\ op' = "download_google_sheet_data"
    /\ UNCHANGED <<restaurants, session_state, store>>

NextDownload == DownloadGoogleSheetData

SpecDownload == InitDownload /\ [][NextDownload]_vars

====
